---- MODULE Spec2Model ----
(***************************************************************************)
(* The logging subsystem (src/src/logging.c) and the allocator             *)
(* (src/src/allocator.c) of rcutils as a state machine.                    *)
(*                                                                         *)
(* C strings are sequences of one-character strings.  A char array is a    *)
(* sequence of array-size entries in which NUL marks the terminator.  A    *)
(* nullable pointer is NULL or Ptr(x).                                     *)
(***************************************************************************)
EXTENDS Integers, Sequences, FiniteSets, TLC

VARIABLES
  g_rcutils_logging_initialized,          \* bool, logging.c:30
  g_rcutils_logging_output_format_string, \* char[2048], logging.c:31
  g_rcutils_logging_output_handler,       \* function pointer, logging.c:35
  g_rcutils_logging_severity_threshold,   \* int, logging.c:37
  severity_map,   \* logger name -> configured severity (registry, spec 4.C)
  env,            \* state of the RCUTILS_CONSOLE_OUTPUT_FORMAT variable
  stdout,         \* writes appended to standard output by the last operation
  stderr,         \* writes appended to standard error by the last operation
  dispatched,     \* output handler invocations made by the last operation
  alloc_trace,    \* allocator calls made by the last operation
  crashed,        \* the process died on an invalid memory access
  heap,           \* the live blocks of the process heap
  returned,       \* the value returned by the last allocator operation
  threads,        \* the threads that call the console output handler
  frames,         \* the automatic variables of the handler invocations
  last            \* the last operation, its arguments and the globals before it

vars == <<g_rcutils_logging_initialized, g_rcutils_logging_output_format_string,
          g_rcutils_logging_output_handler, g_rcutils_logging_severity_threshold,
          severity_map, env, stdout, stderr, dispatched, alloc_trace, crashed,
          heap, returned, threads, frames, last>>

-----------------------------------------------------------------------------
(* Program constants *)

RCUTILS_LOGGING_MAX_OUTPUT_FORMAT_LEN == 2048
RCUTILS_LOG_SEVERITY_UNSET == 0
RCUTILS_LOG_SEVERITY_DEBUG == 10
RCUTILS_LOG_SEVERITY_INFO == 20
RCUTILS_LOG_SEVERITY_WARN == 30
RCUTILS_LOG_SEVERITY_ERROR == 40
RCUTILS_LOG_SEVERITY_FATAL == 50
\* sizeof(static_output_buffer), sizeof(static_message_buffer)
StaticOutputBufferSize == 1024
StaticMessageBufferSize == 1024
\* sizeof(line_number_expansion)
LineNumberExpansionSize == 10
\* initializer of g_rcutils_logging_severity_threshold
InitialSeverityThreshold == 0

-----------------------------------------------------------------------------
(* Bounds of the model *)

\* Characters by which the over-long inputs exceed the limit they test.
Excess == 3
\* Allocator calls of one handler call that may be chosen to fail.
MaxAllocatorCalls == 3
\* A line number of more than nine decimal digits.
BigLineNumber == 1234567890

-----------------------------------------------------------------------------
(* Pointers and C strings *)

NUL == "NUL"
NULL == [null |-> TRUE]
Ptr(x) == [null |-> FALSE, at |-> x]

Min(a, b) == IF a < b THEN a ELSE b

\* n copies of the character c
Repeat(c, n) == [k \in 1..n |-> c]

\* strlen() of a char array: the index of its first NUL
Strlen(buf) ==
  CHOOSE n \in 0..(Len(buf) - 1) :
    buf[n + 1] = NUL /\ \A k \in 1..n : buf[k] # NUL

\* the C string held in a char array
CString(buf) == SubSeq(buf, 1, Strlen(buf))

\* memcpy(dst, src, n) into a char array, from its first element
Memcpy(dst, src, n) ==
  [k \in 1..Len(dst) |-> IF k <= n THEN src[k] ELSE dst[k]]

\* dst[at] = '\0' with a zero-based index
SetNul(dst, at) == [dst EXCEPT ![at + 1] = NUL]

Digit(d) == <<"0", "1", "2", "3", "4", "5", "6", "7", "8", "9">>[d + 1]

RECURSIVE DecimalNat(_)
DecimalNat(n) ==
  IF n < 10 THEN <<Digit(n)>> ELSE DecimalNat(n \div 10) \o <<Digit(n % 10)>>

\* the %d / %zu conversion of printf
Decimal(n) == IF n < 0 THEN <<"-">> \o DecimalNat(0 - n) ELSE DecimalNat(n)

\* rcutils_find(): index of the first c in the string s, SIZE_MAX if none.
\* SIZE_MAX is only ever compared with lengths below 2048.
SIZE_MAX == 2147483647
rcutils_find(s, c) ==
  IF SelectSeq(s, LAMBDA ch : ch = c) # <<>>
  THEN (CHOOSE k \in 1..Len(s) : s[k] = c /\ \A j \in 1..(k - 1) : s[j] # c) - 1
  ELSE SIZE_MAX

-----------------------------------------------------------------------------
(* String literals of the source *)

g_rcutils_logging_default_output_format ==
  <<"[", "{", "s", "e", "v", "e", "r", "i", "t", "y", "}", "]", " ", "[",
    "{", "n", "a", "m", "e", "}", "]", ":", " ", "{", "m", "e", "s", "s",
    "a", "g", "e", "}", " ", "(", "{", "f", "u", "n", "c", "t", "i", "o",
    "n", "_", "n", "a", "m", "e", "}", "(", ")", " ", "a", "t", " ", "{",
    "f", "i", "l", "e", "_", "n", "a", "m", "e", "}", ":", "{", "l", "i",
    "n", "e", "_", "n", "u", "m", "b", "e", "r", "}", ")">>

\* "Failed to get output format from env. variable: %s. Using default output format.\n"
EnvFailureDiagnostic(ret) ==
  <<"F", "a", "i", "l", "e", "d", " ", "t", "o", " ", "g", "e", "t", " ",
    "o", "u", "t", "p", "u", "t", " ", "f", "o", "r", "m", "a", "t", " ",
    "f", "r", "o", "m", " ", "e", "n", "v", ".", " ", "v", "a", "r", "i",
    "a", "b", "l", "e", ":", " ">> \o ret \o
  <<".", " ", "U", "s", "i", "n", "g", " ", "d", "e", "f", "a", "u", "l",
    "t", " ", "o", "u", "t", "p", "u", "t", " ", "f", "o", "r", "m", "a",
    "t", ".", "\n">>

\* "unknown severity level: %d\n"
UnknownSeverityDiagnostic(severity) ==
  <<"u", "n", "k", "n", "o", "w", "n", " ", "s", "e", "v", "e", "r", "i",
    "t", "y", " ", "l", "e", "v", "e", "l", ":", " ">> \o Decimal(severity)
  \o <<"\n">>

\* "failed to format message: '%s'\n"
FormatFailureDiagnostic(format) ==
  <<"f", "a", "i", "l", "e", "d", " ", "t", "o", " ", "f", "o", "r", "m",
    "a", "t", " ", "m", "e", "s", "s", "a", "g", "e", ":", " ", "'">>
  \o format \o <<"'", "\n">>

\* "failed to allocate buffer for message\n"
MessageAllocDiagnostic ==
  <<"f", "a", "i", "l", "e", "d", " ", "t", "o", " ", "a", "l", "l", "o",
    "c", "a", "t", "e", " ", "b", "u", "f", "f", "e", "r", " ", "f", "o",
    "r", " ", "m", "e", "s", "s", "a", "g", "e", "\n">>

\* "failed to format message (using dynamically allocated memory): '%s'\n"
DynamicFormatFailureDiagnostic(format) ==
  <<"f", "a", "i", "l", "e", "d", " ", "t", "o", " ", "f", "o", "r", "m",
    "a", "t", " ", "m", "e", "s", "s", "a", "g", "e", " ", "(", "u", "s",
    "i", "n", "g", " ", "d", "y", "n", "a", "m", "i", "c", "a", "l", "l",
    "y", " ", "a", "l", "l", "o", "c", "a", "t", "e", "d", " ", "m", "e",
    "m", "o", "r", "y", ")", ":", " ", "'">> \o format \o <<"'", "\n">>

\* "failed to allocate buffer for logging output\n"
OutputAllocDiagnostic ==
  <<"f", "a", "i", "l", "e", "d", " ", "t", "o", " ", "a", "l", "l", "o",
    "c", "a", "t", "e", " ", "b", "u", "f", "f", "e", "r", " ", "f", "o",
    "r", " ", "l", "o", "g", "g", "i", "n", "g", " ", "o", "u", "t", "p",
    "u", "t", "\n">>

\* "failed to reallocate buffer for logging output\n"
OutputReallocDiagnostic ==
  <<"f", "a", "i", "l", "e", "d", " ", "t", "o", " ", "r", "e", "a", "l",
    "l", "o", "c", "a", "t", "e", " ", "b", "u", "f", "f", "e", "r", " ",
    "f", "o", "r", " ", "l", "o", "g", "g", "i", "n", "g", " ", "o", "u",
    "t", "p", "u", "t", "\n">>

\* "failed to format line number: '%zu'\n"
LineNumberFailureDiagnostic(line_number) ==
  <<"f", "a", "i", "l", "e", "d", " ", "t", "o", " ", "f", "o", "r", "m",
    "a", "t", " ", "l", "i", "n", "e", " ", "n", "u", "m", "b", "e", "r",
    ":", " ", "'">> \o Decimal(line_number) \o <<"'", "\n">>

-----------------------------------------------------------------------------
(* Environment reader (rcutils/get_env.h, consumed interface of spec 4.D/6) *)

EnvUnset == [kind |-> "unset", value |-> <<>>]
EnvSet(v) == [kind |-> "set", value |-> v]
EnvError == [kind |-> "error", value |-> <<>>]

\* the error string rcutils_get_env returns when the read fails
GetEnvErrorString == <<"e", "r", "r">>

\* rcutils_get_env(name, &value): ret is NULL on success, and then value is
\* the variable's value, "" when it is not set; ret is an error string on
\* failure.
rcutils_get_env(e) ==
  CASE e.kind = "set" -> [ret |-> NULL, value |-> e.value]
    [] e.kind = "unset" -> [ret |-> NULL, value |-> <<>>]
    [] OTHER -> [ret |-> Ptr(GetEnvErrorString), value |-> <<>>]

-----------------------------------------------------------------------------
(* Process-wide state and rcutils_logging_initialize *)

ConsoleHandler == Ptr("rcutils_logging_console_output_handler")
\* an output handler supplied by the application
UserHandler == Ptr("user_output_handler")

Globals ==
  [initialized |-> g_rcutils_logging_initialized,
   output_format_string |-> g_rcutils_logging_output_format_string,
   output_handler |-> g_rcutils_logging_output_handler,
   severity_threshold |-> g_rcutils_logging_severity_threshold]

\* the globals as the C runtime zero-initializes and the initializers set them
StaticGlobals ==
  [initialized |-> FALSE,
   output_format_string |-> Repeat(NUL, RCUTILS_LOGGING_MAX_OUTPUT_FORMAT_LEN),
   output_handler |-> NULL,
   severity_threshold |-> InitialSeverityThreshold]

\* Mutation of CharsToCopy: the limit is the array size, not the size less one.
CharsToCopyWholeArray(output_format) ==
  IF Len(output_format) > RCUTILS_LOGGING_MAX_OUTPUT_FORMAT_LEN
  THEN RCUTILS_LOGGING_MAX_OUTPUT_FORMAT_LEN
  ELSE Len(output_format)

\* logging.c:49-52
CharsToCopy(output_format) ==
  IF Len(output_format) > RCUTILS_LOGGING_MAX_OUTPUT_FORMAT_LEN - 1
  THEN RCUTILS_LOGGING_MAX_OUTPUT_FORMAT_LEN - 1
  ELSE Len(output_format)

\* logging.c:53-54
CopyEnvFormat(buf, output_format) ==
  SetNul(Memcpy(buf, output_format, CharsToCopy(output_format)),
         CharsToCopy(output_format))

\* logging.c:62-63
CopyDefaultFormat(buf) ==
  Memcpy(buf, g_rcutils_logging_default_output_format \o <<NUL>>,
         Len(g_rcutils_logging_default_output_format) + 1)

\* Mutation of InitializedThreshold: the threshold is left at its initializer.
InitializedThresholdUnset == InitialSeverityThreshold

\* logging.c:43
InitializedThreshold == RCUTILS_LOG_SEVERITY_INFO

\* logging.c:48
UseEnvFormat(got) == got.ret = NULL /\ got.value # <<>>

\* logging.c:42-65: the body of rcutils_logging_initialize() on the globals g
\* with the environment e: the globals it leaves and what it writes to
\* standard error.
InitializeBody(g, e) ==
  LET got == rcutils_get_env(e)
  IN [g |-> [initialized |-> TRUE,
             output_handler |-> ConsoleHandler,
             severity_threshold |-> InitializedThreshold,
             output_format_string |->
               IF UseEnvFormat(got)
               THEN CopyEnvFormat(g.output_format_string, got.value)
               ELSE CopyDefaultFormat(g.output_format_string)],
      err |-> IF ~UseEnvFormat(got) /\ got.ret # NULL
              THEN <<EnvFailureDiagnostic(got.ret.at)>>
              ELSE <<>>]

\* Mutation of rcutils_logging_initialize: the initialized flag is not tested.
InitializeUnguarded(g, e) == InitializeBody(g, e)

\* rcutils_logging_initialize(), logging.c:39-67
rcutils_logging_initialize(g, e) ==
  IF ~g.initialized THEN InitializeBody(g, e) ELSE [g |-> g, err |-> <<>>]

\* RCUTILS_LOGGING_AUTOINIT, logging.h:435-438
RCUTILS_LOGGING_AUTOINIT(g, e) ==
  IF ~g.initialized THEN rcutils_logging_initialize(g, e)
  ELSE [g |-> g, err |-> <<>>]

-----------------------------------------------------------------------------
(* libc formatting and the default allocator, as the handler uses them *)

\* 1-based position of the first c in s, 0 if none
IndexOf(s, c) ==
  IF SelectSeq(s, LAMBDA ch : ch = c) # <<>>
  THEN CHOOSE k \in 1..Len(s) : s[k] = c /\ \A j \in 1..(k - 1) : s[j] # c
  ELSE 0

\* the text printf produces for format with the integer arguments args;
\* the conversions are %d and %%
RECURSIVE FormatText(_, _)
FormatText(format, args) ==
  LET p == IndexOf(format, "%")
  IN IF p = 0 \/ p = Len(format) THEN format
     ELSE LET before == SubSeq(format, 1, p - 1)
              after == SubSeq(format, p + 2, Len(format))
          IN IF format[p + 1] = "d" /\ args # <<>>
             THEN before \o Decimal(Head(args)) \o FormatText(after, Tail(args))
             ELSE before \o <<format[p + 1]>> \o FormatText(after, args)

\* vsnprintf(buffer, buffer_size, format, args): the number of characters
\* the whole text needs (negative on an output error) and the string left
\* in the buffer, cut to buffer_size - 1 characters
vsnprintf(buffer_size, format, args, fails) ==
  LET text == FormatText(format, args)
  IN IF fails THEN [written |-> -1, buffer |-> <<>>]
     ELSE [written |-> Len(text),
           buffer |-> SubSeq(text, 1, Min(Len(text), buffer_size - 1))]

\* rcutils_snprintf(buffer, buffer_size, "%zu", n), see snprintf.h
rcutils_snprintf_zu(buffer_size, n, fails) ==
  LET text == Decimal(n)
  IN IF fails THEN [written |-> -1, buffer |-> <<>>]
     ELSE [written |-> Len(text),
           buffer |-> SubSeq(text, 1, Min(Len(text), buffer_size - 1))]

\* A fault is what goes wrong outside the handler's control during one call:
\* nothing, an output error of one of the formatting calls, or the k-th call
\* of allocate/reallocate returning a null pointer.  Every fault ends the
\* call, so one fault per call covers all cases.
NoFault == [kind |-> "none", k |-> 0]
OutOfMemory(k) == [kind |-> "alloc", k |-> k]
FormatFault(which) == [kind |-> which, k |-> 0]

\* does the k-th allocator call of this handler call return NULL
AllocFails(fault, k) == fault.kind = "alloc" /\ fault.k = k

-----------------------------------------------------------------------------
(* rcutils_logging_console_output_handler *)

\* Mutation of KnownSeverity: UNSET is taken for a case of the switch.
KnownSeverityOrUnset(severity) ==
  severity \in {RCUTILS_LOG_SEVERITY_UNSET, RCUTILS_LOG_SEVERITY_DEBUG,
                RCUTILS_LOG_SEVERITY_INFO, RCUTILS_LOG_SEVERITY_WARN,
                RCUTILS_LOG_SEVERITY_ERROR, RCUTILS_LOG_SEVERITY_FATAL}

\* logging.c:159-183: is severity one of the switch's cases
KnownSeverity(severity) ==
  severity \in {RCUTILS_LOG_SEVERITY_DEBUG, RCUTILS_LOG_SEVERITY_INFO,
                RCUTILS_LOG_SEVERITY_WARN, RCUTILS_LOG_SEVERITY_ERROR,
                RCUTILS_LOG_SEVERITY_FATAL}

\* Mutation of StreamOf: WARN goes to standard output.
StreamOfWarnToStdout(severity) ==
  CASE severity = RCUTILS_LOG_SEVERITY_DEBUG -> "stdout"
    [] severity = RCUTILS_LOG_SEVERITY_INFO -> "stdout"
    [] severity = RCUTILS_LOG_SEVERITY_WARN -> "stdout"
    [] severity = RCUTILS_LOG_SEVERITY_ERROR -> "stderr"
    [] severity = RCUTILS_LOG_SEVERITY_FATAL -> "stderr"
    [] OTHER -> "NULL"

\* logging.c:159-179: the stream of a severity
StreamOf(severity) ==
  CASE severity = RCUTILS_LOG_SEVERITY_DEBUG -> "stdout"
    [] severity = RCUTILS_LOG_SEVERITY_INFO -> "stdout"
    [] severity = RCUTILS_LOG_SEVERITY_WARN -> "stderr"
    [] severity = RCUTILS_LOG_SEVERITY_ERROR -> "stderr"
    [] severity = RCUTILS_LOG_SEVERITY_FATAL -> "stderr"
    [] OTHER -> "NULL"

\* logging.c:158-179: severity_string
SeverityString(severity) ==
  CASE severity = RCUTILS_LOG_SEVERITY_DEBUG -> <<"D", "E", "B", "U", "G">>
    [] severity = RCUTILS_LOG_SEVERITY_INFO -> <<"I", "N", "F", "O">>
    [] severity = RCUTILS_LOG_SEVERITY_WARN -> <<"W", "A", "R", "N">>
    [] severity = RCUTILS_LOG_SEVERITY_ERROR -> <<"E", "R", "R", "O", "R">>
    [] severity = RCUTILS_LOG_SEVERITY_FATAL -> <<"F", "A", "T", "A", "L">>
    [] OTHER -> <<>>

\* Mutation of DoubledSize: the buffer grows to the size required.
DoubledSizeExact(output_buffer_size, required) == required

\* logging.c:130-132: output_buffer_size doubled until it holds required
RECURSIVE DoubledSize(_, _)
DoubledSize(output_buffer_size, required) ==
  IF required > 2 * output_buffer_size
  THEN DoubledSize(2 * output_buffer_size, required)
  ELSE 2 * output_buffer_size

\* Mutation of FailedAllocation: the goto is missing, the handler goes on to
\* the write.
FailedAllocationGoesOn(st, event, diagnostic) ==
  [st EXCEPT !.trace = Append(@, event),
             !.err = Append(@, diagnostic),
             !.pc = "print"]

\* logging.c:135-138 and 144-147: the allocator returned a null pointer, the
\* diagnostic is written and the handler jumps to its cleanup label
FailedAllocation(st, event, diagnostic) ==
  [st EXCEPT !.trace = Append(@, event),
             !.err = Append(@, diagnostic),
             !.pc = "cleanup"]

\* a grown buffer into which nothing was copied
GrownBufferUncopied(output_buffer, old_output_buffer_len) == <<>>

\* logging.c:139, 142-143 and 150: the string in the grown buffer: the
\* old_output_buffer_len characters that memcpy copied into the new block, or
\* that reallocate kept, and the terminator written after them
GrownBuffer(output_buffer, old_output_buffer_len) ==
  SubSeq(output_buffer, 1, old_output_buffer_len)

\* RCUTILS_LOGGING_ENSURE_LARGE_ENOUGH_BUFFER(n, ...), logging.c:120-151.
\* st is the handler's state: output_buffer is the string the buffer holds,
\* dynamic is output_buffer != static_output_buffer, block the heap block it
\* points to, calls the number of allocate/reallocate calls made so far.
EnsureLargeEnoughBuffer(st, n, fault) ==
  LET old_output_buffer_len == Len(st.output_buffer)
      required_output_buffer_size == old_output_buffer_len + n + 1
      new_size == DoubledSize(st.output_buffer_size, required_output_buffer_size)
      k == st.calls + 1
  IN IF required_output_buffer_size > st.output_buffer_size
     THEN IF ~st.dynamic
          THEN IF AllocFails(fault, k)
               THEN FailedAllocation(
                      [st EXCEPT !.output_buffer_size = new_size, !.calls = k],
                      [op |-> "allocate", size |-> new_size,
                       ptr |-> NULL, ret |-> NULL],
                      OutputAllocDiagnostic)
               ELSE [st EXCEPT !.output_buffer_size = new_size, !.calls = k,
                       !.trace = Append(@, [op |-> "allocate", size |-> new_size,
                                            ptr |-> NULL, ret |-> Ptr(k)]),
                       !.output_buffer = GrownBuffer(@, old_output_buffer_len),
                       !.dynamic = TRUE, !.block = Ptr(k)]
          ELSE IF AllocFails(fault, k)
               THEN FailedAllocation(
                      [st EXCEPT !.output_buffer_size = new_size, !.calls = k],
                      [op |-> "reallocate", size |-> new_size,
                       ptr |-> st.block, ret |-> NULL],
                      OutputReallocDiagnostic)
               ELSE [st EXCEPT !.output_buffer_size = new_size, !.calls = k,
                       !.trace = Append(@, [op |-> "reallocate", size |-> new_size,
                                            ptr |-> st.block, ret |-> Ptr(k)]),
                       !.output_buffer = GrownBuffer(@, old_output_buffer_len),
                       !.block = Ptr(k)]
     ELSE st

token_start_delimiter == "{"
token_end_delimiter == "}"

\* Mutation of EmptyQuotes: the empty string.
EmptyString == <<>>

\* the string literal "\"\"" of logging.c:284 and logging.c:286
EmptyQuotes == <<"\"", "\"">>

\* logging.c:284
FunctionNameExpansion(location) ==
  IF location # NULL THEN location.at.function_name ELSE EmptyQuotes

\* logging.c:286
FileNameExpansion(location) ==
  IF location # NULL THEN location.at.file_name ELSE EmptyQuotes

\* logging.c:275-305: token_expansion for a token.  c is the record the
\* handler expands: location, name, severity_string, message_buffer.
\* kind is "string" (text is the expansion), "null" (token_expansion is a
\* null pointer), "expired" (token_expansion points to line_number_expansion,
\* the array of the block of logging.c:288-302, whose lifetime ends with the
\* block), "failed" (rcutils_snprintf failed) or "unknown".
TokenExpansion(token, c, fault) ==
  CASE token = <<"s", "e", "v", "e", "r", "i", "t", "y">> ->
         [kind |-> "string", text |-> c.severity_string]
    [] token = <<"n", "a", "m", "e">> ->
         IF c.name = NULL THEN [kind |-> "null", text |-> <<>>]
         ELSE [kind |-> "string", text |-> c.name.at]
    [] token = <<"m", "e", "s", "s", "a", "g", "e">> ->
         [kind |-> "string", text |-> c.message_buffer]
    [] token = <<"f", "u", "n", "c", "t", "i", "o", "n", "_", "n", "a", "m", "e">> ->
         [kind |-> "string", text |-> FunctionNameExpansion(c.location)]
    [] token = <<"f", "i", "l", "e", "_", "n", "a", "m", "e">> ->
         [kind |-> "string", text |-> FileNameExpansion(c.location)]
    [] token = <<"l", "i", "n", "e", "_", "n", "u", "m", "b", "e", "r">> ->
         IF c.location # NULL
         THEN LET r == rcutils_snprintf_zu(LineNumberExpansionSize,
                                           c.location.at.line_number,
                                           fault.kind = "snprintf")
              IN IF r.written < 0 THEN [kind |-> "failed", text |-> <<>>]
                 ELSE [kind |-> "expired", text |-> r.buffer]
         ELSE [kind |-> "string", text |-> <<"0">>]
    [] OTHER -> [kind |-> "unknown", text |-> <<>>]

\* logging.c:315-320: append the expansion x of the token of token_len
\* characters at str[i].  strlen() of a null token_expansion is undefined
\* behaviour: the read of address 0 faults, or it finds a zero byte there.
\* strlen() and memcpy() of line_number_expansion after the end of its block
\* are undefined behaviour: the bytes are still found in the frame, or the
\* access is trapped (a build that checks use after scope).
\* the text with every {severity} in it replaced
RECURSIVE ReplaceSeverity(_, _)
ReplaceSeverity(text, with) ==
  IF text = <<>> THEN <<>>
  ELSE IF /\ Len(text) >= 10
          /\ SubSeq(text, 1, 10) =
               <<"{", "s", "e", "v", "e", "r", "i", "t", "y", "}">>
  THEN with \o ReplaceSeverity(SubSeq(text, 11, Len(text)), with)
  ELSE <<Head(text)>> \o ReplaceSeverity(Tail(text), with)

\* an expansion that is scanned again for the severity token
AppendExpansionRescanned(st, c, x, token_len, fault) ==
  IF \/ x.kind = "null" /\ c.reads.name = "fault"
     \/ x.kind = "expired" /\ c.reads.line_number_expansion = "fault"
  THEN [st EXCEPT !.pc = "fault"]
  ELSE LET text == ReplaceSeverity(x.text, c.severity_string)
           e == EnsureLargeEnoughBuffer(st, Len(text), fault)
       IN IF e.pc = "cleanup" THEN e
          ELSE [e EXCEPT !.output_buffer = @ \o text,
                         !.i = @ + token_len + 2]

AppendExpansion(st, c, x, token_len, fault) ==
  IF \/ x.kind = "null" /\ c.reads.name = "fault"
     \/ x.kind = "expired" /\ c.reads.line_number_expansion = "fault"
  THEN [st EXCEPT !.pc = "fault"]
  ELSE LET n == Len(x.text)
           e == EnsureLargeEnoughBuffer(st, n, fault)
       IN IF e.pc = "cleanup" THEN e
          ELSE [e EXCEPT !.output_buffer = @ \o x.text,
                         !.i = @ + token_len + 2]

\* Mutation of AppendStartDelimiter: the character after the delimiter is
\* stepped over as well.
AppendStartDelimiterAndSkip(st, c, fault) ==
  LET e == EnsureLargeEnoughBuffer(st, 1, fault)
  IN IF e.pc = "cleanup" THEN e
     ELSE [e EXCEPT !.output_buffer = @ \o <<c.str[st.i + 1]>>, !.i = @ + 2]

\* logging.c:306-313: not a token, print the start delimiter and go on
AppendStartDelimiter(st, c, fault) ==
  LET e == EnsureLargeEnoughBuffer(st, 1, fault)
  IN IF e.pc = "cleanup" THEN e
     ELSE [e EXCEPT !.output_buffer = @ \o <<c.str[st.i + 1]>>, !.i = @ + 1]

\* Mutation of CopyRemainder: the copy starts after the start delimiter.
CopyRemainderAfterDelimiter(st, c) ==
  [st EXCEPT !.output_buffer = @ \o SubSeq(c.str, st.i + 2, c.size),
             !.pc = "print"]

\* logging.c:266-267: no end delimiter follows, the rest of the format
\* string from str[i] is copied with its terminator and the loop is left
CopyRemainder(st, c) ==
  [st EXCEPT !.output_buffer = @ \o SubSeq(c.str, st.i + 1, c.size),
             !.pc = "print"]

\* logging.c:257-320: the loop body from the token start delimiter at str[i]
AtStartDelimiter(st, c, fault) ==
  LET chars_to_end_delim ==
        rcutils_find(SubSeq(c.str, st.i + 1, c.size), token_end_delimiter)
      remaining_chars == c.size - st.i
      token_len == chars_to_end_delim - 1
      token == SubSeq(c.str, st.i + 2, st.i + 1 + token_len)
      x == TokenExpansion(token, c, fault)
  IN IF chars_to_end_delim > remaining_chars
     THEN LET e == EnsureLargeEnoughBuffer(st, remaining_chars, fault)
          IN IF e.pc = "cleanup" THEN e
             ELSE CopyRemainder(e, c)
     ELSE CASE x.kind = "unknown" -> AppendStartDelimiter(st, c, fault)
            [] x.kind = "failed" ->
                 [st EXCEPT !.err = Append(@, LineNumberFailureDiagnostic(
                                                c.location.at.line_number)),
                            !.pc = "cleanup"]
            [] OTHER -> AppendExpansion(st, c, x, token_len, fault)

\* Mutation of CopyRun: the last character of the run is not copied.
CopyRunShort(st, c, chars_to_start_delim) ==
  [st EXCEPT !.output_buffer =
               @ \o SubSeq(c.str, st.i + 1, st.i + chars_to_start_delim - 1),
             !.i = @ + chars_to_start_delim]

\* logging.c:250-252: copy the run of chars_to_start_delim characters at
\* str[i] to the end of the output buffer and step over it
CopyRun(st, c, chars_to_start_delim) ==
  [st EXCEPT !.output_buffer =
               @ \o SubSeq(c.str, st.i + 1, st.i + chars_to_start_delim),
             !.i = @ + chars_to_start_delim]

\* logging.c:240-257: the first part of an iteration of the while loop,
\* entered with i < size: the run up to the next start delimiter is copied.
\* pc is "token" when the iteration goes on to the token at str[i].
ToStartDelimiter(st, c, fault) ==
  LET found == rcutils_find(SubSeq(c.str, st.i + 1, c.size), token_start_delimiter)
      remaining_chars == c.size - st.i
      chars_to_start_delim ==
        IF found > remaining_chars THEN remaining_chars ELSE found
      e == EnsureLargeEnoughBuffer(st, chars_to_start_delim, fault)
      t == CopyRun(e, c, chars_to_start_delim)
  IN IF found > 0
     THEN IF e.pc = "cleanup" THEN e
          ELSE IF t.i >= c.size THEN [t EXCEPT !.pc = "print"]
          ELSE [t EXCEPT !.pc = "token"]
     ELSE [st EXCEPT !.pc = "token"]

\* logging.c:239-321: one iteration of the while loop, entered with i < size
LoopBody(st, c, fault) ==
  LET t == ToStartDelimiter(st, c, fault)
  IN IF t.pc = "token"
     THEN AtStartDelimiter([t EXCEPT !.pc = "loop"], c, fault)
     ELSE t

\* logging.c:239: the while loop
RECURSIVE ExpansionLoop(_, _, _)
ExpansionLoop(st, c, fault) ==
  IF st.pc # "loop" THEN st
  ELSE IF ~(st.i < c.size) THEN [st EXCEPT !.pc = "print"]
  ELSE ExpansionLoop(LoopBody(st, c, fault), c, fault)

\* logging.c:322: fprintf(stream, "%s\n", output_buffer)
LogLine(output_buffer) == output_buffer \o <<"\n">>

\* a cleanup that releases the message buffer only
CleanupMessageOnly(message_block, st) ==
  IF message_block # NULL
  THEN <<[op |-> "deallocate", size |-> 0, ptr |-> message_block, ret |-> NULL]>>
  ELSE <<>>

\* logging.c:324-331: the deallocate calls of the cleanup label
Cleanup(message_block, st) ==
  (IF message_block # NULL
   THEN <<[op |-> "deallocate", size |-> 0, ptr |-> message_block, ret |-> NULL]>>
   ELSE <<>>)
  \o
  (IF st.dynamic
   THEN <<[op |-> "deallocate", size |-> 0, ptr |-> st.block, ret |-> NULL]>>
   ELSE <<>>)

\* what the expansion loop reads: the format string (logging.c:234-235),
\* the arguments of the call, severity_string and message_buffer
HandlerRecord(call, str, message_buffer, reads) ==
  [str |-> str,
   size |-> Len(str),
   severity_string |-> SeverityString(call.severity),
   name |-> call.name,
   location |-> call.location,
   message_buffer |-> message_buffer,
   reads |-> reads]

\* logging.c:231-238: the automatic variables of the handler at the start of
\* the expansion loop, after calls allocator calls
LoopStart(trace, calls) ==
  [i |-> 0, output_buffer |-> <<>>,
   output_buffer_size |-> StaticOutputBufferSize,
   dynamic |-> FALSE, block |-> NULL, calls |-> calls,
   trace |-> trace, err |-> <<>>, pc |-> "loop"]

\* logging.c:226-331: expansion of the format string str, the write and the
\* cleanup, with the message in message_buffer (message_block is its heap
\* block, NULL when it is the static buffer) after calls allocator calls
ExpandAndPrint(call, str, message_buffer, message_block, trace, calls, fault, reads) ==
  LET c == HandlerRecord(call, str, message_buffer, reads)
      st0 == LoopStart(trace, calls)
      st == ExpansionLoop(st0, c, fault)
      line == LogLine(st.output_buffer)
  IN CASE st.pc = "fault" ->
            [out |-> <<>>, err |-> st.err, trace |-> st.trace, crashed |-> TRUE]
       [] st.pc = "print" ->
            [out |-> IF StreamOf(call.severity) = "stdout" THEN <<line>> ELSE <<>>,
             err |-> IF StreamOf(call.severity) = "stderr"
                     THEN Append(st.err, line) ELSE st.err,
             trace |-> st.trace \o Cleanup(message_block, st),
             crashed |-> FALSE]
       [] OTHER ->
            [out |-> <<>>, err |-> st.err,
             trace |-> st.trace \o Cleanup(message_block, st),
             crashed |-> FALSE]

\* Mutation of MessageBufferSize: no room for the terminator.
MessageBufferSizeNoTerminator(written) == written

\* logging.c:209: message_buffer_size
MessageBufferSize(written) == written + 1

\* logging.c:207-224: the message did not fit the static buffer
DynamicMessage(call, str, written, fault, reads) ==
  LET message_buffer_size == MessageBufferSize(written)
      again == vsnprintf(message_buffer_size, call.format, call.args,
                         fault.kind = "vsnprintf_dynamic")
      allocated == <<[op |-> "allocate", size |-> message_buffer_size,
                      ptr |-> NULL, ret |-> Ptr(1)]>>
  IN IF AllocFails(fault, 1)
     THEN [out |-> <<>>, err |-> <<MessageAllocDiagnostic>>,
           trace |-> <<[op |-> "allocate", size |-> message_buffer_size,
                        ptr |-> NULL, ret |-> NULL]>>,
           crashed |-> FALSE]
     ELSE IF again.written < 0 \/ again.written >= message_buffer_size
     THEN [out |-> <<>>,
           err |-> <<DynamicFormatFailureDiagnostic(call.format)>>,
           trace |-> Append(allocated, [op |-> "deallocate", size |-> 0,
                                        ptr |-> Ptr(1), ret |-> NULL]),
           crashed |-> FALSE]
     ELSE ExpandAndPrint(call, str, again.buffer, Ptr(1), allocated,
                         1, fault, reads)

\* rcutils_logging_console_output_handler(location, severity, name, format,
\* args), logging.c:153-332: what it writes to the two streams, its
\* allocator calls, and whether it faulted.  str is the string it finds in
\* g_rcutils_logging_output_format_string (logging.c:234-235), fault the
\* failure the call meets, reads the outcomes of its undefined reads.
rcutils_logging_console_output_handler(call, str, fault, reads) ==
  LET first == vsnprintf(StaticMessageBufferSize, call.format, call.args,
                         fault.kind = "vsnprintf")
  IN IF ~KnownSeverity(call.severity)
     THEN [out |-> <<>>, err |-> <<UnknownSeverityDiagnostic(call.severity)>>,
           trace |-> <<>>, crashed |-> FALSE]
     ELSE IF first.written < 0
     THEN [out |-> <<>>, err |-> <<FormatFailureDiagnostic(call.format)>>,
           trace |-> <<>>, crashed |-> FALSE]
     ELSE IF first.written >= StaticMessageBufferSize
     THEN DynamicMessage(call, str, first.written, fault, reads)
     ELSE ExpandAndPrint(call, str, first.buffer, NULL, <<>>, 0,
                         fault, reads)

-----------------------------------------------------------------------------
(* rcutils_log and the configuration operations *)

\* logging.c:94: the severity gate of rcutils_log
GatedOut(severity, threshold) == severity < threshold

\* rcutils_log(location, severity, name, format, ...), logging.c:90-104, on
\* the globals g, str being the string in g.output_format_string: the
\* handler invocations it makes and what they do.
rcutils_log(call, g, str, fault, reads) ==
  LET output_handler == g.output_handler
      quiet == [dispatched |-> <<>>, out |-> <<>>, err |-> <<>>,
                trace |-> <<>>, crashed |-> FALSE]
      r == rcutils_logging_console_output_handler(call, str, fault, reads)
  IN IF GatedOut(call.severity, g.severity_threshold) THEN quiet
     ELSE IF output_handler = NULL THEN quiet
     ELSE IF output_handler = ConsoleHandler
     THEN [dispatched |-> <<[handler |-> output_handler, call |-> call]>>] @@ r
     ELSE [quiet EXCEPT
             !.dispatched = <<[handler |-> output_handler, call |-> call]>>]

\* rcutils_logging_get_output_handler(), logging.c:69-72
rcutils_logging_get_output_handler == g_rcutils_logging_output_handler

\* rcutils_logging_set_output_handler(function), logging.c:74-77
rcutils_logging_set_output_handler(g, function) ==
  [g EXCEPT !.output_handler = function]

\* rcutils_logging_get_severity_threshold(), logging.c:79-82
rcutils_logging_get_severity_threshold == g_rcutils_logging_severity_threshold

\* Mutation of rcutils_logging_set_severity_threshold: the assignment comes
\* before the initialization.
SetSeverityThresholdThenInitialize(g, e, severity) ==
  RCUTILS_LOGGING_AUTOINIT([g EXCEPT !.severity_threshold = severity], e)

\* rcutils_logging_set_severity_threshold(severity), logging.c:84-88
rcutils_logging_set_severity_threshold(g, e, severity) ==
  LET a == RCUTILS_LOGGING_AUTOINIT(g, e)
  IN [g |-> [a.g EXCEPT !.severity_threshold = severity], err |-> a.err]

-----------------------------------------------------------------------------
(* Logger registry: declared in logging.h, specified in spec 4.C and 4.D *)

\* Mutation of ParentOf: the name is cut at its first dot.
ParentOfFirstDot(name) ==
  IF \E k \in 1..Len(name) : name[k] = "."
  THEN SubSeq(name, 1,
              (CHOOSE k \in 1..Len(name) :
                 name[k] = "." /\ \A j \in 1..(k - 1) : name[j] # ".") - 1)
  ELSE <<>>

\* parent_of("x.y.z") = "x.y", parent_of("x") = ""
ParentOf(name) ==
  IF \E k \in 1..Len(name) : name[k] = "."
  THEN SubSeq(name, 1,
              (CHOOSE k \in 1..Len(name) :
                 name[k] = "." /\ \A j \in (k + 1)..Len(name) : name[j] # ".") - 1)
  ELSE <<>>

\* rcutils_logging_get_logger_severity_threshold(name)
rcutils_logging_get_logger_severity_threshold(map, default, name) ==
  IF name = <<>> THEN default
  ELSE IF name \in DOMAIN map THEN map[name]
  ELSE RCUTILS_LOG_SEVERITY_UNSET

\* rcutils_logging_get_logger_effective_severity_threshold(name)
RECURSIVE rcutils_logging_get_logger_effective_severity_threshold(_, _, _)
rcutils_logging_get_logger_effective_severity_threshold(map, default, name) ==
  IF name = <<>> THEN default
  ELSE IF rcutils_logging_get_logger_severity_threshold(map, default, name)
            # RCUTILS_LOG_SEVERITY_UNSET
  THEN map[name]
  ELSE rcutils_logging_get_logger_effective_severity_threshold(
         map, default, ParentOf(name))

\* rcutils_logging_set_logger_severity_threshold(name, severity) on a
\* non-empty name
rcutils_logging_set_logger_severity_threshold(map, name, severity) ==
  [n \in DOMAIN map \cup {name} |-> IF n = name THEN severity ELSE map[n]]

-----------------------------------------------------------------------------
(* Inputs *)

Location(function_name, file_name, line_number) ==
  Ptr([function_name |-> function_name, file_name |-> file_name,
       line_number |-> line_number])

Call(location, severity, name, format, args) ==
  [location |-> location, severity |-> severity, name |-> name,
   format |-> format, args |-> args]

NoCall == Call(NULL, 0, NULL, <<>>, <<>>)

\* what a caller passes besides the severity
Record(location, name, format, args) ==
  [location |-> location, name |-> name, format |-> format, args |-> args]

RecFoo == Record(NULL, Ptr(<<"f", "o", "o">>), <<"h", "i", " ", "%", "d">>, <<7>>)
RecLocated ==
  Record(Location(<<"f">>, <<"g", ".", "c">>, 42), Ptr(<<"n">>), <<"m">>, <<>>)
RecChild == Record(NULL, Ptr(<<"a", ".", "b">>), <<"y">>, <<>>)
RecNoName == Record(NULL, NULL, <<"x">>, <<>>)
RecBigLine ==
  Record(Location(<<"f">>, <<"g", ".", "c">>, BigLineNumber), Ptr(<<"n">>),
         <<"%", "d", "%", "%">>, <<-3>>)
\* messages of one character less than, and exactly, the static buffer's size
RecFits ==
  Record(NULL, Ptr(<<"n">>), Repeat("x", StaticMessageBufferSize - 1), <<>>)
RecOverflows ==
  Record(NULL, Ptr(<<"n">>), Repeat("x", StaticMessageBufferSize), <<>>)
\* a message longer than the static buffer, with a conversion
RecLong ==
  Record(NULL, Ptr(<<"n">>),
         Repeat("y", StaticMessageBufferSize + Excess) \o <<"%", "d">>, <<7>>)
\* a message of twice the size of the static output buffer
RecHuge ==
  Record(NULL, Ptr(<<"n">>), Repeat("w", 2 * StaticOutputBufferSize), <<>>)

\* a name with an unmatched start delimiter and a message that reads as a
\* token followed by an unmatched start delimiter
RecBraces ==
  Record(NULL, Ptr(<<"a", "{", "b">>),
         <<"{", "s", "e", "v", "e", "r", "i", "t", "y", "}", "{">>, <<>>)

WithSeverity(rec, severity) ==
  Call(rec.location, severity, rec.name, rec.format, rec.args)

\* values of RCUTILS_CONSOLE_OUTPUT_FORMAT
FmtSeverityMessage ==
  <<"{", "s", "e", "v", "e", "r", "i", "t", "y", "}", ":",
    "{", "m", "e", "s", "s", "a", "g", "e", "}">>
FmtNope ==
  <<"{", "n", "o", "p", "e", "}", "{", "s", "e", "v", "e", "r", "i", "t", "y", "}">>
FmtNested == <<"{", "a", "{", "s", "e", "v", "e", "r", "i", "t", "y", "}">>
FmtUnterminated == <<"a", "b", "{", "x", "y", "z">>
\* a token followed by a start delimiter that no end delimiter follows
FmtTokenThenUnterminated ==
  <<"{", "s", "e", "v", "e", "r", "i", "t", "y", "}", "{", "x", "y", "z">>
\* a token name in the wrong case, followed by a token
FmtWrongCase ==
  <<"{", "S", "e", "v", "e", "r", "i", "t", "y", "}", "{", "n", "a", "m", "e", "}">>
FmtPlain == <<"p", "l", "a", "i", "n", " ", "}", "t", "e", "x", "t", "}">>
\* a value of n characters whose last character differs from the others
LongValue(n) == Repeat("a", n - 1) \o <<"z">>
FmtTooLong == LongValue(RCUTILS_LOGGING_MAX_OUTPUT_FORMAT_LEN - 1 + Excess)
FmtLongMessage ==
  Repeat("b", StaticOutputBufferSize + Excess) \o
  <<"{", "m", "e", "s", "s", "a", "g", "e", "}", "{", "m", "e", "s", "s", "a", "g", "e", "}">>

Faults ==
  {NoFault, FormatFault("vsnprintf"), FormatFault("vsnprintf_dynamic"),
   FormatFault("snprintf")}
  \cup {OutOfMemory(k) : k \in 1..MaxAllocatorCalls}

\* outcomes of reading through a null name
NullReads(call) == IF call.name = NULL THEN {"fault", "zero"} ELSE {"none"}

\* outcomes of reading line_number_expansion after the end of its block
ExpiredReads(call) ==
  IF call.location = NULL THEN {"none"} ELSE {"intact", "fault"}

\* outcomes of the reads whose behaviour is undefined, for a call
UndefinedReads(call) ==
  [name : NullReads(call), line_number_expansion : ExpiredReads(call)]

\* inputs of the specification Spec
SpecEnvs == {EnvUnset, EnvError, EnvSet(<<>>), EnvSet(FmtSeverityMessage)}
SpecFaults == {NoFault, FormatFault("vsnprintf")}
SpecHandlers == {NULL, ConsoleHandler, UserHandler}
SpecThresholds ==
  {RCUTILS_LOG_SEVERITY_DEBUG, RCUTILS_LOG_SEVERITY_INFO, RCUTILS_LOG_SEVERITY_WARN}
SpecLoggers == {<<"a">>}
SpecLoggerSeverities == {RCUTILS_LOG_SEVERITY_DEBUG}
SpecCalls ==
  {WithSeverity(rec, severity) :
     rec \in {RecFoo, RecLocated, RecChild, RecNoName},
     severity \in {RCUTILS_LOG_SEVERITY_DEBUG, RCUTILS_LOG_SEVERITY_INFO,
                   RCUTILS_LOG_SEVERITY_WARN}}

-----------------------------------------------------------------------------
(* The allocator, allocator.c *)

\* Addresses of the heap blocks of the model.
MaxBlocks == 2

\* no value: the operation returns void, or nothing has been called
Void == [void |-> TRUE]

\* a heap is a set of live blocks, at most one at an address
Block(address, size) == [at |-> address, size |-> size]
Live(h) == {Ptr(b.at) : b \in h}

\* malloc(size) returns a null pointer or a block that was not live
MallocOutcomes(h) ==
  {NULL} \cup {Ptr(a) : a \in (1..MaxBlocks) \ {b.at : b \in h}}

\* realloc(pointer, size) returns a null pointer, the block itself or a block
\* that was not live
ReallocOutcomes(h, pointer) ==
  MallocOutcomes(h) \cup (IF pointer = NULL THEN {} ELSE {pointer})

Without(h, pointer) ==
  IF pointer = NULL THEN h ELSE {b \in h : b.at # pointer.at}

\* __default_allocate(size, state), allocator.c:21-26
default_allocate(h, size, outcome) ==
  [ret |-> outcome,
   heap |-> IF outcome = NULL THEN h ELSE h \cup {Block(outcome.at, size)}]

\* __default_deallocate(pointer, state), allocator.c:28-33
default_deallocate(h, pointer) == Without(h, pointer)

\* __default_reallocate(pointer, size, state), allocator.c:35-40: on failure
\* the block of pointer stays live
default_reallocate(h, pointer, size, outcome) ==
  [ret |-> outcome,
   heap |-> IF outcome = NULL THEN h
            ELSE Without(h, pointer) \cup {Block(outcome.at, size)}]

\* rcutils_allocator_t: three function pointers and the state pointer
Allocator(allocate, deallocate, reallocate) ==
  [allocate |-> allocate, deallocate |-> deallocate,
   reallocate |-> reallocate, state |-> NULL]

\* rcutils_get_default_allocator(), allocator.c:42-52
rcutils_get_default_allocator ==
  Allocator(Ptr("__default_allocate"), Ptr("__default_deallocate"),
            Ptr("__default_reallocate"))

\* allocator.c:59-61, the line number being that of the __LINE__ token
ReallocfDiagnostic ==
  <<"[", "c", "_", "u", "t", "i", "l", "t", "i", "e", "s", "|", "a", "l",
    "l", "o", "c", "a", "t", "o", "r", ".", "c", ":", "6", "0", "]", " ",
    "r", "c", "u", "t", "i", "l", "s", "_", "r", "e", "a", "l", "l", "o",
    "c", "f", "(", ")", ":", " ", "i", "n", "v", "a", "l", "i", "d", " ",
    "a", "l", "l", "o", "c", "a", "t", "o", "r", " ", "o", "r", " ", "a",
    "l", "l", "o", "c", "a", "t", "o", "r", " ", "f", "u", "n", "c", "t",
    "i", "o", "n", " ", "p", "o", "i", "n", "t", "e", "r", "s", ",", " ",
    "m", "e", "m", "o", "r", "y", " ", "l", "e", "a", "k", "e", "d", "\n">>

\* fwrite(ptr, sizeof(char), nmemb, stream): the first nmemb characters
Fwrite(ptr, nmemb) == SubSeq(ptr, 1, nmemb)

\* sizeof(msg), allocator.c:62: msg is a const char *, its size that of a
\* pointer of the target
PointerSizes == {4, 8}

\* allocator.c:57: the allocator cannot be used by rcutils_reallocf
Unusable(allocator) ==
  \/ allocator = NULL
  \/ allocator.at.reallocate = NULL
  \/ allocator.at.deallocate = NULL

\* Mutation of ReleaseOnFailure: the original block is never deallocated.
ReleaseNever(h, pointer, new_pointer) ==
  [heap |-> h, trace |-> <<>>]

\* allocator.c:66-68: the original block is deallocated when reallocate
\* returned a null pointer
ReleaseOnFailure(h, pointer, new_pointer) ==
  IF new_pointer = NULL
  THEN [heap |-> default_deallocate(h, pointer),
        trace |-> <<[op |-> "deallocate", size |-> 0,
                     ptr |-> pointer, ret |-> NULL]>>]
  ELSE [heap |-> h, trace |-> <<>>]

\* rcutils_reallocf(pointer, size, allocator), allocator.c:54-70.  outcome is
\* what realloc returns, sizeof_msg the size of a pointer.
rcutils_reallocf(h, pointer, size, allocator, outcome, sizeof_msg) ==
  IF Unusable(allocator)
  THEN [ret |-> NULL, heap |-> h, trace |-> <<>>,
        err |-> <<Fwrite(ReallocfDiagnostic, sizeof_msg)>>]
  ELSE LET r == default_reallocate(h, pointer, size, outcome)
           new_pointer == r.ret
           released == ReleaseOnFailure(r.heap, pointer, new_pointer)
       IN [ret |-> new_pointer, heap |-> released.heap,
           trace |-> <<[op |-> "reallocate", size |-> size,
                        ptr |-> pointer, ret |-> new_pointer]>>
                     \o released.trace,
           err |-> <<>>]

-----------------------------------------------------------------------------
(* Threads in the console output handler *)

Threads == {1, 2}

\* a thread that has not called the handler; out and err are what the thread
\* has written to the two streams
IdleThread ==
  [pc |-> "idle", call |-> NoCall, fault |-> NoFault,
   reads |-> [name |-> "none", line_number_expansion |-> "none"],
   out |-> <<>>, err |-> <<>>]

\* no invocation: the automatic variables do not exist
NoFrame ==
  [c |-> HandlerRecord(NoCall, <<>>, <<>>, IdleThread.reads),
   st |-> [LoopStart(<<>>, 0) EXCEPT !.pc = "none"]]

\* Mutation of FrameOf: the buffers and the loop variables have static
\* storage, one instance for all invocations.
FrameShared(t) == 1

\* logging.c:186-238, 260, 291: the buffers and the loop variables of the
\* handler are automatic, each invocation has its own
FrameOf(t) == t

-----------------------------------------------------------------------------
(* The state machine *)

Before ==
  [initialized |-> g_rcutils_logging_initialized,
   output_handler |-> g_rcutils_logging_output_handler,
   severity_threshold |-> g_rcutils_logging_severity_threshold]

SetGlobals(g) ==
  /\ g_rcutils_logging_initialized' = g.initialized
  /\ g_rcutils_logging_output_format_string' = g.output_format_string
  /\ g_rcutils_logging_output_handler' = g.output_handler
  /\ g_rcutils_logging_severity_threshold' = g.severity_threshold

UnchangedGlobals ==
  UNCHANGED <<g_rcutils_logging_initialized,
              g_rcutils_logging_output_format_string,
              g_rcutils_logging_output_handler,
              g_rcutils_logging_severity_threshold>>

Quiet ==
  /\ stdout' = <<>>
  /\ dispatched' = <<>>
  /\ alloc_trace' = <<>>
  /\ UNCHANGED crashed

\* the globals are those of the record g
GlobalsAre(g) ==
  /\ g_rcutils_logging_initialized = g.initialized
  /\ g_rcutils_logging_output_format_string = g.output_format_string
  /\ g_rcutils_logging_output_handler = g.output_handler
  /\ g_rcutils_logging_severity_threshold = g.severity_threshold

NoOperation ==
  [op |-> "start", call |-> NoCall,
   pre |-> [initialized |-> FALSE, output_handler |-> NULL,
            severity_threshold |-> InitialSeverityThreshold]]

\* the state of a process at its start, the variable being one of values
StartWith(values) ==
  /\ GlobalsAre(StaticGlobals)
  /\ severity_map = <<>>
  /\ env \in values
  /\ stdout = <<>>
  /\ stderr = <<>>
  /\ dispatched = <<>>
  /\ alloc_trace = <<>>
  /\ crashed = FALSE
  /\ heap = {}
  /\ returned = Void
  /\ threads = [t \in Threads |-> IdleThread]
  /\ frames = [t \in Threads |-> NoFrame]
  /\ last = NoOperation

Init == StartWith(SpecEnvs)

\* the application calls rcutils_logging_initialize()
Initialize ==
  LET r == rcutils_logging_initialize(Globals, env)
  IN /\ ~crashed
     /\ SetGlobals(r.g)
     /\ stderr' = r.err
     /\ Quiet
     /\ last' = [op |-> "initialize", call |-> NoCall, pre |-> Before]
     /\ UNCHANGED <<severity_map, env, heap, returned, threads, frames>>

\* the application calls rcutils_logging_set_output_handler(function)
SetOutputHandler ==
  \E function \in SpecHandlers :
    /\ ~crashed
    /\ SetGlobals(rcutils_logging_set_output_handler(Globals, function))
    /\ stderr' = <<>>
    /\ Quiet
    /\ last' = [op |-> "set_output_handler", call |-> NoCall, pre |-> Before]
    /\ UNCHANGED <<severity_map, env, heap, returned, threads, frames>>

\* the application calls rcutils_logging_set_severity_threshold(severity)
SetSeverityThreshold ==
  \E severity \in SpecThresholds :
    LET r == rcutils_logging_set_severity_threshold(Globals, env, severity)
    IN /\ ~crashed
       /\ SetGlobals(r.g)
       /\ stderr' = r.err
       /\ Quiet
       /\ last' = [op |-> "set_severity_threshold",
                   call |-> [NoCall EXCEPT !.severity = severity],
                   pre |-> Before]
       /\ UNCHANGED <<severity_map, env, heap, returned, threads, frames>>

\* the application calls rcutils_logging_set_logger_severity_threshold(name,
\* severity); with the empty name the default threshold is set
\* (logging.h:280-281)
SetLoggerSeverityThresholdIn(names, severities) ==
  \E name \in names, severity \in severities :
    LET a == RCUTILS_LOGGING_AUTOINIT(Globals, env)
    IN /\ ~crashed
       /\ SetGlobals(IF name = <<>>
                     THEN [a.g EXCEPT !.severity_threshold = severity]
                     ELSE a.g)
       /\ severity_map' =
            IF name = <<>> THEN severity_map
            ELSE rcutils_logging_set_logger_severity_threshold(
                   severity_map, name, severity)
       /\ stderr' = a.err
       /\ Quiet
       /\ last' = [op |-> "set_logger_severity_threshold",
                   call |-> [NoCall EXCEPT !.severity = severity,
                                           !.name = Ptr(name)],
                   pre |-> Before]
       /\ UNCHANGED <<env, heap, returned, threads, frames>>

\* Mutation of Log: rcutils_log initializes the system first, as the other
\* entry points do with RCUTILS_LOGGING_AUTOINIT.
LogAfterAutoinit ==
  /\ ~crashed
  /\ \E a \in {RCUTILS_LOGGING_AUTOINIT(Globals, env)} :
     \E str \in {CString(a.g.output_format_string)} :
     \E call \in SpecCalls, fault \in SpecFaults :
     \E reads \in UndefinedReads(call) :
     \E r \in {rcutils_log(call, a.g, str, fault, reads)} :
         /\ stdout' = r.out
         /\ stderr' = a.err \o r.err
         /\ dispatched' = r.dispatched
         /\ alloc_trace' = r.trace
         /\ crashed' = r.crashed
         /\ last' = [op |-> "log", call |-> call, pre |-> Before]
         /\ SetGlobals(a.g)
         /\ UNCHANGED <<severity_map, env, heap, returned, threads, frames>>

\* the application calls rcutils_log(location, severity, name, format, ...)
Log ==
  /\ ~crashed
  /\ \E str \in {CString(g_rcutils_logging_output_format_string)} :
     \E call \in SpecCalls, fault \in SpecFaults :
     \E reads \in UndefinedReads(call) :
     \E r \in {rcutils_log(call, Globals, str, fault, reads)} :
         /\ stdout' = r.out
         /\ stderr' = r.err
         /\ dispatched' = r.dispatched
         /\ alloc_trace' = r.trace
         /\ crashed' = r.crashed
         /\ last' = [op |-> "log", call |-> call, pre |-> Before]
         /\ UnchangedGlobals
         /\ UNCHANGED <<severity_map, env, heap, returned, threads, frames>>

SetLoggerSeverityThreshold ==
  SetLoggerSeverityThresholdIn(SpecLoggers, SpecLoggerSeverities)

\* the environment variable RCUTILS_CONSOLE_OUTPUT_FORMAT is set, unset or
\* made unreadable
SetEnvIn(values) ==
  \E e \in values :
    /\ ~crashed
    /\ env' = e
    /\ stderr' = <<>>
    /\ Quiet
    /\ last' = [op |-> "setenv", call |-> NoCall, pre |-> Before]
    /\ UnchangedGlobals
    /\ UNCHANGED <<severity_map, heap, returned, threads, frames>>

SetEnv == SetEnvIn(SpecEnvs)

Next ==
  \/ Initialize
  \/ SetOutputHandler
  \/ SetSeverityThreshold
  \/ SetLoggerSeverityThreshold
  \/ Log
  \/ SetEnv

Spec == Init /\ [][Next]_vars

-----------------------------------------------------------------------------
(* Initialization against values of the variable around the length limit *)

InitEnvs ==
  {EnvUnset, EnvError, EnvSet(<<>>), EnvSet(FmtSeverityMessage),
   EnvSet(LongValue(RCUTILS_LOGGING_MAX_OUTPUT_FORMAT_LEN - 2)),
   EnvSet(LongValue(RCUTILS_LOGGING_MAX_OUTPUT_FORMAT_LEN - 1)),
   EnvSet(LongValue(RCUTILS_LOGGING_MAX_OUTPUT_FORMAT_LEN)),
   EnvSet(FmtTooLong)}

InitInit == StartWith(InitEnvs)

SetEnvInit == SetEnvIn(InitEnvs)

NextInit ==
  \/ Initialize
  \/ SetOutputHandler
  \/ SetSeverityThreshold
  \/ SetEnvInit

SpecInit == InitInit /\ [][NextInit]_vars

-----------------------------------------------------------------------------
(* One call of the console output handler per behaviour, before or after    *)
(* the initialization, over format strings, records, severities and faults *)

HandlerEnvs ==
  {EnvUnset, EnvSet(FmtSeverityMessage), EnvSet(FmtNope), EnvSet(FmtNested),
   EnvSet(FmtUnterminated), EnvSet(FmtTokenThenUnterminated),
   EnvSet(FmtWrongCase), EnvSet(FmtPlain), EnvSet(FmtTooLong),
   EnvSet(FmtLongMessage)}

HandlerSeverities ==
  {-5, RCUTILS_LOG_SEVERITY_UNSET, RCUTILS_LOG_SEVERITY_DEBUG,
   RCUTILS_LOG_SEVERITY_INFO, 25, RCUTILS_LOG_SEVERITY_WARN,
   RCUTILS_LOG_SEVERITY_ERROR, RCUTILS_LOG_SEVERITY_FATAL}

HandlerCalls ==
  {WithSeverity(rec, severity) :
     rec \in {RecFoo, RecLocated, RecNoName, RecBigLine, RecFits, RecOverflows,
              RecLong, RecHuge, RecBraces},
     severity \in HandlerSeverities}

InitHandler == StartWith(HandlerEnvs)

InitializeOnce == last.op = "start" /\ Initialize

\* the application calls rcutils_logging_console_output_handler(location,
\* severity, name, format, args) itself
ConsoleOutputHandlerCall ==
  /\ ~crashed
  /\ last.op # "console_output_handler"
  /\ \E str \in {CString(g_rcutils_logging_output_format_string)} :
     \E call \in HandlerCalls, fault \in Faults :
     \E reads \in UndefinedReads(call) :
     \E r \in {rcutils_logging_console_output_handler(call, str, fault, reads)} :
         /\ stdout' = r.out
         /\ stderr' = r.err
         /\ dispatched' = <<>>
         /\ alloc_trace' = r.trace
         /\ crashed' = r.crashed
         /\ last' = [op |-> "console_output_handler", call |-> call,
                     pre |-> Before]
         /\ UnchangedGlobals
         /\ UNCHANGED <<severity_map, env, heap, returned, threads, frames>>

NextHandler ==
  \/ InitializeOnce
  \/ ConsoleOutputHandlerCall

SpecHandler == InitHandler /\ [][NextHandler]_vars

-----------------------------------------------------------------------------
(* The allocator operations over a heap of MaxBlocks blocks *)

AllocSizes == {1, 2}

\* the allocator arguments: a null pointer, or a pointer to a structure each
\* of whose function pointers is null or the default function
Allocators ==
  {NULL} \cup
  {Ptr(Allocator(allocate, deallocate, reallocate)) :
     allocate \in {NULL, Ptr("__default_allocate")},
     deallocate \in {NULL, Ptr("__default_deallocate")},
     reallocate \in {NULL, Ptr("__default_reallocate")}}

\* the logging state is not touched by the allocator
UnchangedLogging ==
  /\ UnchangedGlobals
  /\ stdout' = <<>>
  /\ dispatched' = <<>>
  /\ UNCHANGED <<severity_map, env, crashed, threads, frames>>

\* the application calls allocate of the default allocator
Allocate ==
  \E size \in AllocSizes, outcome \in MallocOutcomes(heap) :
    \E r \in {default_allocate(heap, size, outcome)} :
      /\ heap' = r.heap
      /\ returned' = r.ret
      /\ alloc_trace' = <<[op |-> "allocate", size |-> size,
                           ptr |-> NULL, ret |-> r.ret]>>
      /\ stderr' = <<>>
      /\ last' = [op |-> "allocate", call |-> [size |-> size],
                  pre |-> Before, heap |-> heap]
      /\ UnchangedLogging

\* the application calls deallocate of the default allocator on a live block
\* or on a null pointer
Deallocate ==
  \E pointer \in Live(heap) \cup {NULL} :
    /\ heap' = default_deallocate(heap, pointer)
    /\ returned' = Void
    /\ alloc_trace' = <<[op |-> "deallocate", size |-> 0,
                         ptr |-> pointer, ret |-> NULL]>>
    /\ stderr' = <<>>
    /\ last' = [op |-> "deallocate", call |-> [pointer |-> pointer],
                pre |-> Before, heap |-> heap]
    /\ UnchangedLogging

\* what reallocate returns to rcutils_reallocf: nothing to choose when it is
\* not called
ReallocResults(h, pointer, allocator) ==
  IF Unusable(allocator) THEN {NULL} ELSE ReallocOutcomes(h, pointer)

\* the sizes of msg: nothing to choose when it is not written
MessageSizes(allocator) ==
  IF Unusable(allocator) THEN PointerSizes ELSE {0}

\* the application calls rcutils_reallocf(pointer, size, allocator) on a live
\* block or on a null pointer
Reallocf ==
  \E pointer \in Live(heap) \cup {NULL}, size \in AllocSizes :
  \E allocator \in Allocators :
  \E outcome \in ReallocResults(heap, pointer, allocator) :
  \E sizeof_msg \in MessageSizes(allocator) :
  \E r \in {rcutils_reallocf(heap, pointer, size, allocator, outcome,
                             sizeof_msg)} :
      /\ heap' = r.heap
      /\ returned' = r.ret
      /\ alloc_trace' = r.trace
      /\ stderr' = r.err
      /\ last' = [op |-> "reallocf",
                  call |-> [pointer |-> pointer, size |-> size,
                            allocator |-> allocator],
                  pre |-> Before, heap |-> heap]
      /\ UnchangedLogging

InitAllocator == StartWith({EnvUnset})

NextAllocator ==
  \/ Allocate
  \/ Deallocate
  \/ Reallocf

SpecAllocator == InitAllocator /\ [][NextAllocator]_vars

-----------------------------------------------------------------------------
(* The logger registry over a hierarchy of three names *)

RegistryLoggers ==
  {<<"a">>, <<"a", ".", "b">>, <<"a", ".", "b", ".", "c">>}

RegistrySeverities ==
  {RCUTILS_LOG_SEVERITY_UNSET, RCUTILS_LOG_SEVERITY_DEBUG,
   RCUTILS_LOG_SEVERITY_WARN}

SetRegistryLoggerSeverityThreshold ==
  SetLoggerSeverityThresholdIn(RegistryLoggers \cup {<<>>}, RegistrySeverities)

InitRegistry == StartWith({EnvUnset})

NextRegistry ==
  \/ Initialize
  \/ SetSeverityThreshold
  \/ SetRegistryLoggerSeverityThreshold

SpecRegistry == InitRegistry /\ [][NextRegistry]_vars

-----------------------------------------------------------------------------
(* The console output handler step by step, called by concurrent threads on  *)
(* the initialized system, with messages that fit the static message buffer *)

\* the frame of thread t after a step that leaves it at st
StepTo(t, st) ==
  /\ frames' = [frames EXCEPT ![FrameOf(t)].st = st]
  /\ threads' = [threads EXCEPT
       ![t].err = @ \o SubSeq(st.err, Len(frames[FrameOf(t)].st.err) + 1,
                              Len(st.err))]
  /\ stderr' = SubSeq(st.err, Len(frames[FrameOf(t)].st.err) + 1, Len(st.err))
  /\ stdout' = <<>>
  /\ crashed' = (st.pc = "fault")

UnchangedByThreads ==
  /\ UnchangedGlobals
  /\ dispatched' = <<>>
  /\ alloc_trace' = <<>>
  /\ UNCHANGED <<severity_map, env, heap, returned>>

\* logging.c:153-238: thread t calls the handler, which formats the message
\* into static_message_buffer and sets up the expansion loop
ThreadEnter(t, calls, faults) ==
  /\ ~crashed
  /\ g_rcutils_logging_initialized
  /\ threads[t].pc = "idle"
  /\ \E str \in {CString(g_rcutils_logging_output_format_string)} :
     \E call \in calls, fault \in faults :
     \E reads \in UndefinedReads(call) :
     \E m \in {vsnprintf(StaticMessageBufferSize, call.format, call.args, FALSE)} :
       /\ KnownSeverity(call.severity)
       /\ m.written >= 0 /\ m.written < StaticMessageBufferSize
       /\ threads' = [threads EXCEPT ![t] =
            [IdleThread EXCEPT !.pc = "running", !.call = call,
                               !.fault = fault, !.reads = reads]]
       /\ frames' = [frames EXCEPT ![FrameOf(t)] =
            [c |-> HandlerRecord(call, str, m.buffer, reads),
             st |-> LoopStart(<<>>, 0)]]
       /\ stdout' = <<>>
       /\ stderr' = <<>>
       /\ UNCHANGED crashed
       /\ last' = [op |-> "enter", call |-> call, pre |-> Before]
       /\ UnchangedByThreads

\* logging.c:239-257: the loop condition and the copy of the run up to the
\* next start delimiter
ThreadScan(t) ==
  /\ ~crashed
  /\ threads[t].pc = "running"
  /\ frames[FrameOf(t)].st.pc = "loop"
  /\ \E f \in {frames[FrameOf(t)]} :
     \E st \in {IF ~(f.st.i < f.c.size) THEN [f.st EXCEPT !.pc = "print"]
                ELSE ToStartDelimiter(f.st, f.c, threads[t].fault)} :
       /\ StepTo(t, st)
       /\ last' = [op |-> "scan", call |-> threads[t].call, pre |-> Before]
       /\ UnchangedByThreads

\* logging.c:258-320: the token at the start delimiter
ThreadToken(t) ==
  /\ ~crashed
  /\ threads[t].pc = "running"
  /\ frames[FrameOf(t)].st.pc = "token"
  /\ \E f \in {frames[FrameOf(t)]} :
     \E st \in {AtStartDelimiter([f.st EXCEPT !.pc = "loop"], f.c,
                                 threads[t].fault)} :
       /\ StepTo(t, st)
       /\ last' = [op |-> "token", call |-> threads[t].call, pre |-> Before]
       /\ UnchangedByThreads

\* logging.c:322: the line is written to the stream of the severity, in one
\* write
ThreadPrint(t) ==
  /\ ~crashed
  /\ threads[t].pc = "running"
  /\ frames[FrameOf(t)].st.pc = "print"
  /\ \E line \in {LogLine(frames[FrameOf(t)].st.output_buffer)} :
     \E stream \in {StreamOf(threads[t].call.severity)} :
       /\ stdout' = IF stream = "stdout" THEN <<line>> ELSE <<>>
       /\ stderr' = IF stream = "stderr" THEN <<line>> ELSE <<>>
       /\ threads' = [threads EXCEPT
            ![t].out = IF stream = "stdout" THEN Append(@, line) ELSE @,
            ![t].err = IF stream = "stderr" THEN Append(@, line) ELSE @]
       /\ frames' = [frames EXCEPT ![FrameOf(t)].st.pc = "cleanup"]
       /\ UNCHANGED crashed
       /\ last' = [op |-> "print", call |-> threads[t].call, pre |-> Before]
       /\ UnchangedByThreads

\* logging.c:324-332: the cleanup label and the return
ThreadReturn(t) ==
  /\ ~crashed
  /\ threads[t].pc = "running"
  /\ frames[FrameOf(t)].st.pc = "cleanup"
  /\ threads' = [threads EXCEPT ![t].pc = "returned"]
  /\ frames' = [frames EXCEPT
       ![FrameOf(t)].st.trace = @ \o Cleanup(NULL, frames[FrameOf(t)].st),
       ![FrameOf(t)].st.pc = "returned"]
  /\ stdout' = <<>>
  /\ stderr' = <<>>
  /\ UNCHANGED crashed
  /\ last' = [op |-> "return", call |-> threads[t].call, pre |-> Before]
  /\ UnchangedByThreads

ThreadEnvs == {EnvUnset, EnvSet(FmtLongMessage), EnvSet(FmtTokenThenUnterminated)}

ThreadCalls ==
  {WithSeverity(RecLocated, RCUTILS_LOG_SEVERITY_INFO),
   WithSeverity(RecFits, RCUTILS_LOG_SEVERITY_ERROR),
   WithSeverity(RecNoName, RCUTILS_LOG_SEVERITY_INFO)}

\* the call that grows the output buffer twice, for which the second
\* allocator call can fail
FailingCalls == {WithSeverity(RecFits, RCUTILS_LOG_SEVERITY_ERROR)}

ThreadFaults == {OutOfMemory(2)}

InitThreads == StartWith(ThreadEnvs)

NextThreads ==
  \/ InitializeOnce
  \/ \E t \in Threads : ThreadEnter(t, ThreadCalls, {NoFault})
  \/ \E t \in Threads : ThreadEnter(t, FailingCalls, ThreadFaults)
  \/ \E t \in Threads : ThreadScan(t)
  \/ \E t \in Threads : ThreadToken(t)
  \/ \E t \in Threads : ThreadPrint(t)
  \/ \E t \in Threads : ThreadReturn(t)

SpecThreads == InitThreads /\ [][NextThreads]_vars

\* thread t has a next step in the handler: the guards of ThreadScan,
\* ThreadToken, ThreadPrint and ThreadReturn
HasNextStep(t) ==
  /\ ~crashed
  /\ threads[t].pc = "running"
  /\ frames[FrameOf(t)].st.pc \in {"loop", "token", "print", "cleanup"}

-----------------------------------------------------------------------------
(* Properties *)

\* the format template: the string held in the format string array
Template == CString(g_rcutils_logging_output_format_string)

\* the array holds a terminator
NulTerminated(buf) == SelectSeq(buf, LAMBDA ch : ch = NUL) # <<>>

\* the logger name of a call, "" when absent
NameOrEmpty(call) == IF call.name = NULL THEN <<>> ELSE call.name.at

\* the effective severity of the logger a call names
EffectiveSeverity(call) ==
  rcutils_logging_get_logger_effective_severity_threshold(
    severity_map, g_rcutils_logging_severity_threshold, NameOrEmpty(call))

\* C1: a log call with an active handler is dropped if and only if its
\* severity is below the effective severity of its logger name, so a DEBUG
\* call for "a.b" is dispatched once "a" is set to DEBUG.
C1_GatedOnEffectiveSeverity ==
  (last.op = "log" /\ g_rcutils_logging_output_handler # NULL) =>
    ((dispatched = <<>>) <=> (last.call.severity < EffectiveSeverity(last.call)))

\* C2: when a log call on an uninitialized system returns, the system is
\* initialized, the console handler is active and the threshold is INFO.
C2_LogInitializes ==
  (last.op = "log" /\ ~last.pre.initialized) =>
    /\ g_rcutils_logging_initialized
    /\ g_rcutils_logging_output_handler = ConsoleHandler
    /\ g_rcutils_logging_severity_threshold = RCUTILS_LOG_SEVERITY_INFO

\* the first n characters of the value of the variable, n = min(len, 2047)
EnvPrefix ==
  SubSeq(env.value, 1,
         Min(Len(env.value), RCUTILS_LOGGING_MAX_OUTPUT_FORMAT_LEN - 1))

\* initialize() has just run on an uninitialized system
JustInitialized == last.op = "initialize" /\ ~last.pre.initialized

\* C3: after initialize() on an uninitialized system the system is
\* initialized, the console handler is active, the threshold is INFO and the
\* format template is a NUL-terminated string, the value of the variable
\* (cut to 2047 characters) or the default template.
C3_InitializeEstablishesDefaults ==
  JustInitialized =>
    /\ g_rcutils_logging_initialized
    /\ g_rcutils_logging_output_handler = ConsoleHandler
    /\ g_rcutils_logging_severity_threshold = 20
    /\ NulTerminated(g_rcutils_logging_output_format_string)
    /\ Template \in {EnvPrefix, g_rcutils_logging_default_output_format}

C3_Witness ==
  /\ JustInitialized
  /\ g_rcutils_logging_initialized
  /\ Template = FmtSeverityMessage

\* C4: initialize() on an initialized system changes neither the handler,
\* nor the threshold, nor the format template, nor the flag.
C4_InitializeTwiceIsNoOp ==
  [][(last'.op = "initialize" /\ g_rcutils_logging_initialized) =>
       UNCHANGED <<g_rcutils_logging_initialized,
                   g_rcutils_logging_output_format_string,
                   g_rcutils_logging_output_handler,
                   g_rcutils_logging_severity_threshold>>]_vars

\* initialize() was called on an initialized system whose handler and
\* threshold had been set since and whose variable had changed
C4_Witness ==
  /\ last.op = "initialize"
  /\ last.pre.initialized
  /\ g_rcutils_logging_output_handler = UserHandler
  /\ g_rcutils_logging_severity_threshold = RCUTILS_LOG_SEVERITY_WARN
  /\ Template = g_rcutils_logging_default_output_format
  /\ env = EnvSet(FmtSeverityMessage)

\* C5: the template initialization installs is the first min(len, 2047)
\* characters of the variable's value and a terminator when the variable is
\* read and not empty, and the default template otherwise; it writes a
\* diagnostic to standard error only when the read fails; the system ends
\* up initialized.
C5_FormatTemplateInstalled ==
  JustInitialized =>
    /\ g_rcutils_logging_initialized
    /\ NulTerminated(g_rcutils_logging_output_format_string)
    /\ IF env.kind = "set" /\ env.value # <<>>
       THEN /\ Template = EnvPrefix
            /\ g_rcutils_logging_output_format_string[Len(EnvPrefix) + 1] = NUL
            /\ stderr = <<>>
       ELSE /\ Template = g_rcutils_logging_default_output_format
            /\ (stderr # <<>>) <=> (env.kind = "error")
            /\ Len(stderr) <= 1

\* a value longer than 2047 characters was cut to 2047
C5_Witness ==
  /\ JustInitialized
  /\ Len(env.value) > RCUTILS_LOGGING_MAX_OUTPUT_FORMAT_LEN - 1
  /\ Len(Template) = RCUTILS_LOGGING_MAX_OUTPUT_FORMAT_LEN - 1

\* log(null, INFO, "foo", "hi %d", 7) was called on an initialized system
\* with the default settings and template
FooAtDefaults ==
  /\ last.op = "log"
  /\ last.call = WithSeverity(RecFoo, RCUTILS_LOG_SEVERITY_INFO)
  /\ g_rcutils_logging_initialized
  /\ g_rcutils_logging_output_handler = ConsoleHandler
  /\ g_rcutils_logging_severity_threshold = RCUTILS_LOG_SEVERITY_INFO
  /\ Template = g_rcutils_logging_default_output_format

\* a log call without location reached the console handler under the
\* default template and a line was written
UnlocatedLine ==
  /\ last.op = "log"
  /\ last.call.location = NULL
  /\ g_rcutils_logging_output_handler = ConsoleHandler
  /\ Template = g_rcutils_logging_default_output_format
  /\ stdout \o stderr # <<>>
  /\ (stdout \o stderr)[1] # FormatFailureDiagnostic(last.call.format)

EndsWith(s, suffix) ==
  /\ Len(s) >= Len(suffix)
  /\ SubSeq(s, Len(s) - Len(suffix) + 1, Len(s)) = suffix

\* C9 as stated: the line is `[INFO] [foo]: hi 7 (() at :0)`, and a line
\* without location ends with `(() at :0)`.
C9_LineWithoutQuotes ==
  /\ (FooAtDefaults /\ stdout # <<>>) =>
       stdout =
         << <<"[", "I", "N", "F", "O", "]", " ", "[", "f", "o", "o", "]", ":",
              " ", "h", "i", " ", "7", " ", "(", "(", ")", " ", "a", "t", " ",
              ":", "0", ")", "\n">> >>
  /\ UnlocatedLine =>
       EndsWith((stdout \o stderr)[1],
                <<"(", "(", ")", " ", "a", "t", " ", ":", "0", ")", "\n">>)

\* C9 amended: the call writes exactly the line
\* `[INFO] [foo]: hi 7 (""() at "":0)` to standard output, unless the
\* message cannot be formatted; a line without location under the default
\* template ends with `(""() at "":0)`.
C9_LineWithQuotes ==
  /\ FooAtDefaults =>
       \/ /\ stdout =
               << <<"[", "I", "N", "F", "O", "]", " ", "[", "f", "o", "o", "]",
                    ":", " ", "h", "i", " ", "7", " ", "(", "\"", "\"", "(",
                    ")", " ", "a", "t", " ", "\"", "\"", ":", "0", ")",
                    "\n">> >>
          /\ stderr = <<>>
       \/ /\ stdout = <<>>
          /\ stderr = <<FormatFailureDiagnostic(last.call.format)>>
  /\ UnlocatedLine =>
       EndsWith((stdout \o stderr)[1],
                <<"(", "\"", "\"", "(", ")", " ", "a", "t", " ", "\"", "\"",
                  ":", "0", ")", "\n">>)

C9_Witness == FooAtDefaults /\ stdout # <<>>

\* Expansion of a template as spec 4.E defines it: the token table and the
\* parsing rules, written from the specification and not from the loop.
SeverityName(severity) ==
  CASE severity = 10 -> <<"D", "E", "B", "U", "G">>
    [] severity = 20 -> <<"I", "N", "F", "O">>
    [] severity = 30 -> <<"W", "A", "R", "N">>
    [] severity = 40 -> <<"E", "R", "R", "O", "R">>
    [] severity = 50 -> <<"F", "A", "T", "A", "L">>

FirstDigits(n, digits) ==
  SubSeq(Decimal(n), 1, Min(Len(Decimal(n)), digits))

TokenValues(call) ==
  [severity |-> SeverityName(call.severity),
   name |-> NameOrEmpty(call),
   message |-> FormatText(call.format, call.args),
   function_name |-> IF call.location = NULL THEN <<"\"", "\"">>
                     ELSE call.location.at.function_name,
   file_name |-> IF call.location = NULL THEN <<"\"", "\"">>
                 ELSE call.location.at.file_name,
   line_number |-> IF call.location = NULL THEN <<"0">>
                   ELSE FirstDigits(call.location.at.line_number, 9)]

TokenValue(token, call) ==
  CASE token = <<"s", "e", "v", "e", "r", "i", "t", "y">> ->
         <<TokenValues(call).severity>>
    [] token = <<"n", "a", "m", "e">> -> <<TokenValues(call).name>>
    [] token = <<"m", "e", "s", "s", "a", "g", "e">> ->
         <<TokenValues(call).message>>
    [] token = <<"f", "u", "n", "c", "t", "i", "o", "n", "_", "n", "a", "m", "e">> ->
         <<TokenValues(call).function_name>>
    [] token = <<"f", "i", "l", "e", "_", "n", "a", "m", "e">> ->
         <<TokenValues(call).file_name>>
    [] token = <<"l", "i", "n", "e", "_", "n", "u", "m", "b", "e", "r">> ->
         <<TokenValues(call).line_number>>
    [] OTHER -> <<>>

RECURSIVE Expansion(_, _)
Expansion(template, call) ==
  LET p == IndexOf(template, "{")
      rest == SubSeq(template, p, Len(template))
      q == IndexOf(rest, "}")
      value == TokenValue(SubSeq(rest, 2, q - 1), call)
  IN IF p = 0 THEN template
     ELSE SubSeq(template, 1, p - 1) \o
          (IF q = 0 THEN rest
           ELSE IF value # <<>>
           THEN value[1] \o Expansion(SubSeq(rest, q + 1, Len(rest)), call)
           ELSE <<"{">> \o Expansion(Tail(rest), call))

\* the diagnostics the console handler can write for a call
Diagnostics(call) ==
  {UnknownSeverityDiagnostic(call.severity),
   FormatFailureDiagnostic(call.format),
   DynamicFormatFailureDiagnostic(call.format),
   MessageAllocDiagnostic, OutputAllocDiagnostic, OutputReallocDiagnostic}
  \cup (IF call.location = NULL THEN {}
        ELSE {LineNumberFailureDiagnostic(call.location.at.line_number)})

\* the log lines among the writes of the last operation
LogLines(writes) == SelectSeq(writes, LAMBDA w : w \notin Diagnostics(last.call))

HandlerCalled == last.op = "console_output_handler"

\* the handler met no failure: it wrote no diagnostic and did not fault
Unfailed ==
  /\ ~crashed
  /\ LogLines(stderr) = stderr
  /\ last.call.severity \in {10, 20, 30, 40, 50}

\* C6: a log line of the console handler goes to one stream only, standard
\* output for DEBUG and INFO and standard error for WARN, ERROR and FATAL,
\* nothing is written to the other stream, and the line is the expanded
\* template followed by one newline.
C6_OneStreamBySeverity ==
  HandlerCalled =>
    /\ stdout # <<>> =>
         /\ last.call.severity \in {10, 20}
         /\ stdout = <<Expansion(Template, last.call) \o <<"\n">> >>
         /\ stderr = <<>>
    /\ LogLines(stderr) # <<>> =>
         /\ last.call.severity \in {30, 40, 50}
         /\ stderr = <<Expansion(Template, last.call) \o <<"\n">> >>
         /\ stdout = <<>>
    /\ Unfailed => Len(stdout \o stderr) = 1

C6_Witness ==
  /\ HandlerCalled
  /\ last.call.severity = 30
  /\ Len(stderr) = 1
  /\ LogLines(stderr) = stderr
  /\ Template = g_rcutils_logging_default_output_format

\* C7: for a severity that is none of DEBUG, INFO, WARN, ERROR, FATAL the
\* console handler writes "unknown severity level: <n>\n" to standard error
\* and nothing else, formats nothing and allocates nothing.
C7_UnknownSeverity ==
  (HandlerCalled /\ last.call.severity \notin {10, 20, 30, 40, 50}) =>
    /\ stdout = <<>>
    /\ stderr = <<UnknownSeverityDiagnostic(last.call.severity)>>
    /\ last.call.severity = 25 =>
         stderr[1] =
           <<"u", "n", "k", "n", "o", "w", "n", " ", "s", "e", "v", "e", "r",
             "i", "t", "y", " ", "l", "e", "v", "e", "l", ":", " ", "2", "5",
             "\n">>
    /\ alloc_trace = <<>>
    /\ ~crashed

C7_Witness ==
  /\ HandlerCalled
  /\ last.call.severity = 25
  /\ last.call.format = Repeat("x", StaticMessageBufferSize)
  /\ stderr # <<>>

\* the line of the default template for a call, with line_text for
\* {line_number}
DefaultLine(call, line_text) ==
  <<"[">> \o SeverityName(call.severity) \o <<"]", " ", "[">>
  \o NameOrEmpty(call) \o <<"]", ":", " ">>
  \o FormatText(call.format, call.args) \o <<" ", "(">>
  \o (IF call.location = NULL THEN <<"\"", "\"">>
      ELSE call.location.at.function_name)
  \o <<"(", ")", " ", "a", "t", " ">>
  \o (IF call.location = NULL THEN <<"\"", "\"">>
      ELSE call.location.at.file_name)
  \o <<":">> \o line_text \o <<")", "\n">>

\* C8: under the default template {function_name}, {file_name} and
\* {line_number} expand to the location's function name, file name and
\* decimal line number, and to `""`, `""` and `0` without a location: a
\* call that meets no formatting or allocation failure yields that line,
\* and location ("f", "g.c", 42), WARN, "n", "m" yields
\* `[WARN] [n]: m (f() at g.c:42)` on standard error.
C8_LocationTokens ==
  (/\ HandlerCalled
   /\ Template = g_rcutils_logging_default_output_format
   /\ last.call.severity \in {10, 20, 30, 40, 50}
   /\ last.call.name # NULL
   /\ LogLines(stderr) = stderr) =>
    /\ LogLines(stdout \o stderr) =
         <<DefaultLine(last.call,
                       IF last.call.location = NULL THEN <<"0">>
                       ELSE Decimal(last.call.location.at.line_number))>>
    /\ last.call = WithSeverity(RecLocated, 30) =>
         /\ stderr =
              << <<"[", "W", "A", "R", "N", "]", " ", "[", "n", "]", ":", " ",
                   "m", " ", "(", "f", "(", ")", " ", "a", "t", " ", "g", ".",
                   "c", ":", "4", "2", ")", "\n">> >>
         /\ stdout = <<>>

\* C10: under a template without '{' every line the console handler emits
\* is the template itself, whatever the record.
C10_NoBraceTemplateVerbatim ==
  (HandlerCalled /\ IndexOf(Template, "{") = 0) =>
    /\ ~crashed
    /\ \A k \in 1..Len(LogLines(stdout \o stderr)) :
         LogLines(stdout \o stderr)[k] = Template \o <<"\n">>
    /\ Unfailed => Len(LogLines(stdout \o stderr)) = 1

C10_Witness ==
  /\ HandlerCalled
  /\ Template = FmtPlain
  /\ last.call.name = NULL
  /\ stdout = <<FmtPlain \o <<"\n">> >>

\* positions of the start delimiters of the template that no end delimiter
\* follows
UnterminatedAt ==
  UNION {{p \in {k \in 1..Len(t) : t[k] = "{"} :
            \A q \in {k \in 1..Len(t) : t[k] = "}"} : q < p} :
         t \in {Template}}

\* the first of them: where the scan meets an unterminated start delimiter
FirstUnterminated == CHOOSE p \in UnterminatedAt : \A q \in UnterminatedAt : p <= q

\* C11: when the template has a '{' that no '}' follows, every line the
\* console handler writes is the expansion of what precedes the first such
\* '{', followed by the rest of the template from that '{' verbatim.
C11_UnterminatedTokenVerbatim ==
  (HandlerCalled /\ UnterminatedAt # {}) =>
    /\ \A k \in 1..Len(LogLines(stdout \o stderr)) :
         LogLines(stdout \o stderr)[k] =
           Expansion(SubSeq(Template, 1, FirstUnterminated - 1), last.call)
           \o SubSeq(Template, FirstUnterminated, Len(Template))
           \o <<"\n">>
    /\ Unfailed => Len(LogLines(stdout \o stderr)) = 1

C11_Witness ==
  /\ HandlerCalled
  /\ Template = FmtTokenThenUnterminated
  /\ last.call.severity = 40
  /\ stderr = << <<"E", "R", "R", "O", "R", "{", "x", "y", "z", "\n">> >>

\* the six token names of spec 4.E
RecognizedTokens ==
  {<<"s", "e", "v", "e", "r", "i", "t", "y">>, <<"n", "a", "m", "e">>,
   <<"m", "e", "s", "s", "a", "g", "e">>,
   <<"f", "u", "n", "c", "t", "i", "o", "n", "_", "n", "a", "m", "e">>,
   <<"f", "i", "l", "e", "_", "n", "a", "m", "e">>,
   <<"l", "i", "n", "e", "_", "n", "u", "m", "b", "e", "r">>}

\* the template starts with '{', a '}' follows, and the text between the two
\* is no token name
StartsWithUnknownToken ==
  /\ Template # <<>>
  /\ Head(Template) = "{"
  /\ IndexOf(Template, "}") # 0
  /\ SubSeq(Template, 2, IndexOf(Template, "}") - 1) \notin RecognizedTokens

\* C12: when the text between '{' and the next '}' is no token name, the
\* '{' alone is emitted and the scan resumes at the next character:
\* `{nope}{severity}` at INFO yields `{nope}INFO`, `{a{severity}` yields
\* `{aINFO`, and the match is case-sensitive (`{Severity}{name}` for the
\* name "n" yields `{Severity}n`).
C12_UnknownTokenEmitsDelimiter ==
  (HandlerCalled /\ StartsWithUnknownToken) =>
    /\ \A k \in 1..Len(LogLines(stdout \o stderr)) :
         LogLines(stdout \o stderr)[k] =
           <<"{">> \o Expansion(Tail(Template), last.call) \o <<"\n">>
    /\ Unfailed => Len(LogLines(stdout \o stderr)) = 1
    /\ (Unfailed /\ last.call.severity = 20 /\ Template = FmtNope) =>
         stdout = << <<"{", "n", "o", "p", "e", "}", "I", "N", "F", "O", "\n">> >>
    /\ (Unfailed /\ last.call.severity = 20 /\ Template = FmtNested) =>
         stdout = << <<"{", "a", "I", "N", "F", "O", "\n">> >>
    /\ (Unfailed /\ last.call.severity = 20 /\ Template = FmtWrongCase
          /\ last.call.name = Ptr(<<"n">>)) =>
         stdout =
           << <<"{", "S", "e", "v", "e", "r", "i", "t", "y", "}", "n", "\n">> >>

C12_Witness ==
  /\ HandlerCalled
  /\ Template = FmtNested
  /\ last.call.severity = 20
  /\ stdout = << <<"{", "a", "I", "N", "F", "O", "\n">> >>

\* the allocate and reallocate calls of the last operation that returned a
\* null pointer
FailedAllocations ==
  SelectSeq(alloc_trace,
            LAMBDA ev : ev.op \in {"allocate", "reallocate"} /\ ev.ret = NULL)

\* C13: if an allocate or reallocate call of the console handler returns
\* null, the handler writes one diagnostic to standard error, the one of the
\* failed call, and no log line to either stream.
C13_AllocationFailureAbortsLine ==
  (HandlerCalled /\ FailedAllocations # <<>>) =>
    /\ stdout = <<>>
    /\ Len(stderr) = 1
    /\ stderr[1] \in
         {MessageAllocDiagnostic, OutputAllocDiagnostic, OutputReallocDiagnostic}
    /\ (stderr[1] = OutputReallocDiagnostic) <=>
         (FailedAllocations[1].op = "reallocate")
    /\ ~crashed

\* a growth of the heap output buffer failed
C13_Witness ==
  /\ HandlerCalled
  /\ FailedAllocations # <<>>
  /\ FailedAllocations[1].op = "reallocate"
  /\ stderr = <<OutputReallocDiagnostic>>

\* the formatted user message of the last call
FormattedMessage == FormatText(last.call.format, last.call.args)

\* the message needs the heap: it does not fit the static message buffer
\* with its terminator
MessageNeedsHeap == Len(FormattedMessage) >= StaticMessageBufferSize

\* the allocate and reallocate calls of the last operation for the output
\* buffer: all of them but the first one when the message needed the heap
OutputBufferCalls ==
  LET calls == SelectSeq(alloc_trace,
                         LAMBDA ev : ev.op \in {"allocate", "reallocate"})
  IN IF MessageNeedsHeap /\ calls # <<>> THEN Tail(calls) ELSE calls

\* size is 1024 doubled at least once
IsDoubled(size) ==
  \E j \in 1..8 : size = StaticOutputBufferSize * (2 ^ j)

\* the handler got as far as formatting the message and met neither an
\* output error of a formatting call nor an invalid read
Emitting ==
  /\ HandlerCalled
  /\ last.call.severity \in {10, 20, 30, 40, 50}
  /\ ~crashed
  /\ \A k \in 1..Len(stderr) :
       stderr[k] \notin
         {FormatFailureDiagnostic(last.call.format),
          DynamicFormatFailureDiagnostic(last.call.format)}
         \cup (IF last.call.location = NULL THEN {}
               ELSE {LineNumberFailureDiagnostic(
                       last.call.location.at.line_number)})

\* C14: the console handler makes no allocator call when the formatted
\* message and the expanded line are both at most 1023 characters long, and
\* makes one when either is 1024 characters or longer; the output buffer
\* is first allocated, then reallocated, each time at 1024 doubled some
\* number of times and larger than before.
C14_AllocatesOnlyBeyondStaticBuffers ==
  HandlerCalled =>
    /\ last.call.severity \notin {10, 20, 30, 40, 50} => alloc_trace = <<>>
    /\ (/\ last.call.severity \in {10, 20, 30, 40, 50}
        /\ Len(FormattedMessage) <= StaticMessageBufferSize - 1
        /\ Len(Expansion(Template, last.call)) <= StaticOutputBufferSize - 1)
         => alloc_trace = <<>>
    /\ (/\ Emitting
        /\ \/ Len(FormattedMessage) >= StaticMessageBufferSize
           \/ Len(Expansion(Template, last.call)) >= StaticOutputBufferSize)
         => alloc_trace # <<>>
    /\ \A k \in 1..Len(OutputBufferCalls) :
         /\ IsDoubled(OutputBufferCalls[k].size)
         /\ OutputBufferCalls[k].op = IF k = 1 THEN "allocate" ELSE "reallocate"
         /\ k > 1 => /\ OutputBufferCalls[k].size > OutputBufferCalls[k - 1].size
                     /\ OutputBufferCalls[k].ptr = OutputBufferCalls[k - 1].ret

\* a message for which the output buffer is doubled twice at once
C14_Witness ==
  /\ HandlerCalled
  /\ last.call = WithSeverity(RecHuge, 20)
  /\ Template = FmtSeverityMessage
  /\ stdout # <<>>
  /\ Len(OutputBufferCalls) = 1
  /\ OutputBufferCalls[1].size = 4 * StaticOutputBufferSize

\* C15: when the formatted message is L >= 1024 characters long, the first
\* allocator call of the console handler is allocate(L + 1), and {message}
\* expands to the whole message of L characters.
C15_LongMessageWhole ==
  (/\ HandlerCalled
   /\ last.call.severity \in {10, 20, 30, 40, 50}
   /\ MessageNeedsHeap
   /\ stderr # <<FormatFailureDiagnostic(last.call.format)>>) =>
    /\ alloc_trace # <<>>
    /\ alloc_trace[1].op = "allocate"
    /\ alloc_trace[1].size = Len(FormattedMessage) + 1
    /\ (Template = FmtSeverityMessage /\ LogLines(stdout \o stderr) # <<>>) =>
         /\ LogLines(stdout \o stderr) =
              <<SeverityName(last.call.severity) \o <<":">>
                \o FormattedMessage \o <<"\n">> >>
         /\ Len(LogLines(stdout \o stderr)[1]) =
              Len(SeverityName(last.call.severity)) + 1
              + Len(FormattedMessage) + 1
    /\ (Template = FmtSeverityMessage /\ Unfailed) =>
         LogLines(stdout \o stderr) # <<>>

C15_Witness ==
  /\ HandlerCalled
  /\ alloc_trace # <<>>
  /\ last.call = WithSeverity(RecLong, 30)
  /\ Template = FmtSeverityMessage
  /\ alloc_trace[1].size = StaticMessageBufferSize + Excess + 2
  /\ Len(stderr) = 1
  /\ Len(stderr[1]) = 4 + 1 + StaticMessageBufferSize + Excess + 1 + 1

\* the one invocation of the active handler with the arguments of the call
OneInvocation ==
  <<[handler |-> g_rcutils_logging_output_handler, call |-> last.call]>>

\* C16: a log call whose severity passes the gate of spec 4.D (it is not
\* below the effective severity of its logger name) invokes the active
\* handler once with the caller's arguments when that handler is not null;
\* when the handler is null or the gate fails it invokes no handler and
\* writes nothing.
C16_DispatchedOnceWhenPassing ==
  last.op = "log" =>
    IF /\ g_rcutils_logging_output_handler # NULL
       /\ ~(last.call.severity < EffectiveSeverity(last.call))
    THEN dispatched = OneInvocation
    ELSE dispatched = <<>> /\ stdout = <<>> /\ stderr = <<>>

\* the same with the gate rcutils_log applies, the comparison with the
\* global threshold alone
DispatchedOnceAtGlobalGate ==
  last.op = "log" =>
    IF /\ g_rcutils_logging_output_handler # NULL
       /\ ~(last.call.severity < g_rcutils_logging_severity_threshold)
    THEN dispatched = OneInvocation
    ELSE dispatched = <<>> /\ stdout = <<>> /\ stderr = <<>>

-----------------------------------------------------------------------------
(* rcutils_reallocf *)

\* the calls of the allocator function op made by the last operation
TraceCalls(op) == SelectSeq(alloc_trace, LAMBDA e : e.op = op)

\* the reallocate and deallocate pointers of the allocator can be called
Usable(allocator) ==
  /\ allocator # NULL
  /\ allocator.at.reallocate # NULL
  /\ allocator.at.deallocate # NULL

\* spec 4.A: an allocator is valid iff all three function pointers are
\* non-null
Valid(allocator) ==
  /\ allocator # NULL
  /\ allocator.at.allocate # NULL
  /\ allocator.at.deallocate # NULL
  /\ allocator.at.reallocate # NULL

\* C17: with an allocator whose reallocate and deallocate are usable,
\* rcutils_reallocf calls reallocate once on its pointer and size and returns
\* the pointer reallocate returned; if that pointer is null it calls
\* deallocate exactly once, on the original pointer, whose block is then no
\* longer live, and returns null; otherwise it never calls deallocate.
C17_ReallocfFreesOnFailure ==
  (last.op = "reallocf" /\ Usable(last.call.allocator)) =>
    LET reallocs == TraceCalls("reallocate")
        deallocs == TraceCalls("deallocate")
    IN /\ Len(reallocs) = 1
       /\ reallocs[1].ptr = last.call.pointer
       /\ reallocs[1].size = last.call.size
       /\ returned = reallocs[1].ret
       /\ stderr = <<>>
       /\ IF reallocs[1].ret = NULL
          THEN /\ Len(deallocs) = 1
               /\ deallocs[1].ptr = last.call.pointer
               /\ last.call.pointer \notin Live(heap)
               /\ returned = NULL
          ELSE /\ deallocs = <<>>
               /\ returned \in Live(heap)

\* the reallocation of a live block failed under an allocator that has no
\* allocate function: the block was deallocated and null returned
C17_Witness ==
  /\ last.op = "reallocf"
  /\ Usable(last.call.allocator)
  /\ last.call.allocator.at.allocate = NULL
  /\ last.call.pointer \in Live(last.heap)
  /\ returned = NULL
  /\ TraceCalls("deallocate") # <<>>
  /\ heap = Without(last.heap, last.call.pointer)

\* C18: with an invalid allocator (the pointer or one of the three function
\* pointers is null) rcutils_reallocf writes a diagnostic to standard error,
\* returns null and calls neither reallocate nor deallocate.
C18_InvalidAllocatorRejected ==
  (last.op = "reallocf" /\ ~Valid(last.call.allocator)) =>
    /\ stderr # <<>>
    /\ returned = NULL
    /\ alloc_trace = <<>>
    /\ heap = last.heap

\* what the code does of C18: the allocators it rejects are those without a
\* reallocate or a deallocate function, and of the diagnostic it writes the
\* first sizeof(char *) characters
ReallocfRejectsUnusable ==
  (last.op = "reallocf" /\ ~Usable(last.call.allocator)) =>
    /\ Len(stderr) = 1
    /\ Len(stderr[1]) \in PointerSizes
    /\ stderr[1] = SubSeq(ReallocfDiagnostic, 1, Len(stderr[1]))
    /\ returned = NULL
    /\ alloc_trace = <<>>
    /\ heap = last.heap

-----------------------------------------------------------------------------
(* The default severity threshold *)

\* C19: while the caller has set no threshold, the time before the
\* initialization included, rcutils_logging_get_severity_threshold() returns
\* INFO and rcutils_log passes no call of a severity below INFO to the
\* handler.
C19_DefaultThresholdIsInfo ==
  /\ ~g_rcutils_logging_initialized =>
       rcutils_logging_get_severity_threshold = RCUTILS_LOG_SEVERITY_INFO
  /\ (last.op = "log" /\ ~last.pre.initialized
        /\ last.call.severity < RCUTILS_LOG_SEVERITY_INFO) =>
       dispatched = <<>>

\* what the code does of C19: the threshold is that of the initializer until
\* the initialization, and INFO from the initialization until the caller
\* sets one
ThresholdBeforeAndAfterInitialization ==
  /\ ~g_rcutils_logging_initialized =>
       rcutils_logging_get_severity_threshold = InitialSeverityThreshold
  /\ (last.op = "initialize" /\ ~last.pre.initialized) =>
       rcutils_logging_get_severity_threshold = RCUTILS_LOG_SEVERITY_INFO

-----------------------------------------------------------------------------
(* Effective severity *)

\* the names whose effective severity is looked at: those of the registry,
\* their siblings, and names with an empty component
ProbedNames ==
  RegistryLoggers \cup
  {<<"b">>, <<"a", ".", "c">>, <<"a", ".", "b", ".", "d">>,
   <<"a", ".", "b", ".">>, <<"a", ".", ".", "b">>, <<".", "a">>}

EffectiveSeverityOf(name) ==
  rcutils_logging_get_logger_effective_severity_threshold(
    severity_map, g_rcutils_logging_severity_threshold, name)

\* the name has a threshold of its own
Configured(name) ==
  /\ name # <<>>
  /\ name \in DOMAIN severity_map
  /\ severity_map[name] # RCUTILS_LOG_SEVERITY_UNSET

\* the name and its ancestors: its prefixes that end before a dot
SelfAndAncestors(name) ==
  {name} \cup {SubSeq(name, 1, k - 1) : k \in {j \in 1..Len(name) : name[j] = "."}}

\* the configured names among the name and its ancestors
ConfiguredLine(name) == {n \in SelfAndAncestors(name) : Configured(n)}

\* the longest of a non-empty set of prefixes of one name
Closest(names) == CHOOSE n \in names : \A m \in names : Len(m) <= Len(n)

\* C20: a non-empty name without a threshold of its own has the effective
\* severity of its parent (the name cut at its last dot, the empty name for a
\* name without a dot); the effective severity of a name is the threshold of
\* the closest configured name among itself and its ancestors, and the
\* default threshold when none is configured.
C20_HierarchicalEffectiveSeverity ==
  \A name \in ProbedNames :
    /\ ~Configured(name) =>
         EffectiveSeverityOf(name) = EffectiveSeverityOf(ParentOf(name))
    /\ EffectiveSeverityOf(name) =
         IF ConfiguredLine(name) # {}
         THEN severity_map[Closest(ConfiguredLine(name))]
         ELSE g_rcutils_logging_severity_threshold
    /\ EffectiveSeverityOf(<<>>) = g_rcutils_logging_severity_threshold

\* "a.b.c" was reset to UNSET while "a.b" is at WARN and "a" at DEBUG, under
\* a default threshold of its own: "a.b.c" and "a.b.d" resolve to WARN, "a.c"
\* to DEBUG and "b" to the default
C20_Witness ==
  /\ last.op = "set_logger_severity_threshold"
  /\ DOMAIN severity_map = RegistryLoggers
  /\ severity_map[<<"a", ".", "b", ".", "c">>] = RCUTILS_LOG_SEVERITY_UNSET
  /\ severity_map[<<"a", ".", "b">>] = RCUTILS_LOG_SEVERITY_WARN
  /\ severity_map[<<"a">>] = RCUTILS_LOG_SEVERITY_DEBUG
  /\ g_rcutils_logging_severity_threshold = RCUTILS_LOG_SEVERITY_INFO
  /\ EffectiveSeverityOf(<<"a", ".", "b", ".", "c">>) = RCUTILS_LOG_SEVERITY_WARN
  /\ EffectiveSeverityOf(<<"a", ".", "b", ".", "d">>) = RCUTILS_LOG_SEVERITY_WARN
  /\ EffectiveSeverityOf(<<"a", ".", "c">>) = RCUTILS_LOG_SEVERITY_DEBUG
  /\ EffectiveSeverityOf(<<"b">>) = RCUTILS_LOG_SEVERITY_INFO

-----------------------------------------------------------------------------
(* Thresholds set and read back *)

\* C21: after rcutils_logging_set_severity_threshold(s) the default threshold
\* read back is s, and after rcutils_logging_set_logger_severity_threshold(n,
\* s) the threshold of n read back is s, whatever the state before, the
\* uninitialized one included; with the empty name the second sets the
\* default threshold as the first does, and the empty name is never stored.
C21_SetGetRoundTrip ==
  /\ last.op = "set_severity_threshold" =>
       /\ rcutils_logging_get_severity_threshold = last.call.severity
       /\ g_rcutils_logging_initialized
  /\ last.op = "set_logger_severity_threshold" =>
       /\ rcutils_logging_get_logger_severity_threshold(
            severity_map, g_rcutils_logging_severity_threshold,
            last.call.name.at) = last.call.severity
       /\ g_rcutils_logging_initialized
       /\ last.call.name.at = <<>> =>
            rcutils_logging_get_severity_threshold = last.call.severity
  /\ <<>> \notin DOMAIN severity_map

\* the default threshold was set to WARN on the uninitialized system
C21_Witness ==
  /\ last.op = "set_severity_threshold"
  /\ ~last.pre.initialized
  /\ last.call.severity = RCUTILS_LOG_SEVERITY_WARN
  /\ rcutils_logging_get_severity_threshold = RCUTILS_LOG_SEVERITY_WARN

-----------------------------------------------------------------------------
(* Log calls without a logger name *)

\* the template holds the token {name}
TemplateHasNameToken ==
  \E t \in {Template} :
    \E k \in 1..(Len(t) - 5) :
      SubSeq(t, k, k + 5) = <<"{", "n", "a", "m", "e", "}">>

\* rcutils_log passed the call to the console output handler
LoggedToConsole ==
  /\ last.op = "log"
  /\ dispatched = <<[handler |-> ConsoleHandler, call |-> last.call]>>

\* C22: a log call with a null logger name that reaches the console handler
\* under a template holding {name} completes: the process does not die on a
\* read through the null name, and unless a diagnostic is written the line
\* is the template expanded with the empty string for {name}.
C22_NullNameCompletes ==
  (LoggedToConsole /\ last.call.name = NULL /\ TemplateHasNameToken) =>
    /\ ~crashed
    /\ LogLines(stderr) = stderr =>
         LogLines(stdout \o stderr) =
           <<Expansion(Template, last.call) \o <<"\n">> >>

\* what the code does of C22: with a logger name the call completes
NamedCallCompletes ==
  (LoggedToConsole /\ last.call.name # NULL /\ last.call.location = NULL) =>
    ~crashed

-----------------------------------------------------------------------------
(* Concurrent calls of the console output handler *)

\* what the call of thread t does when it runs alone
Alone(t) ==
  rcutils_logging_console_output_handler(
    threads[t].call, Template, threads[t].fault, threads[t].reads)

IsPrefix(s, t) == Len(s) <= Len(t) /\ s = SubSeq(t, 1, Len(s))

\* C23: with no configuration operation under way and atomic stream writes,
\* under every interleaving of the handler's steps in concurrent threads
\* what a thread has written is the beginning of what its call writes when it
\* runs alone, and all of it when the call has returned: its own diagnostic
\* or its own complete line.
C23_ConcurrentCallsEmitOwnLines ==
  \A t \in Threads :
    threads[t].pc # "idle" =>
      \E a \in {Alone(t)} :
        /\ IsPrefix(threads[t].out, a.out)
        /\ IsPrefix(threads[t].err, a.err)
        /\ threads[t].pc = "returned" =>
             /\ threads[t].out = a.out
             /\ threads[t].err = a.err
             /\ frames[t].st.trace = a.trace

\* thread 1 has written the line of its call and has not returned, while
\* thread 2 stands at a token in the middle of another call's line
C23_Witness ==
  /\ threads[1].pc = "running"
  /\ frames[1].st.pc = "cleanup"
  /\ threads[1].call = WithSeverity(RecLocated, RCUTILS_LOG_SEVERITY_INFO)
  /\ Template = g_rcutils_logging_default_output_format
  /\ threads[1].out =
       << <<"[", "I", "N", "F", "O", "]", " ", "[", "n", "]", ":", " ",
            "m", " ", "(", "f", "(", ")", " ", "a", "t", " ", "g", ".",
            "c", ":", "4", "2", ")", "\n">> >>
  /\ threads[2].pc = "running"
  /\ threads[2].call = WithSeverity(RecFits, RCUTILS_LOG_SEVERITY_ERROR)
  /\ frames[2].st.pc = "token"
  /\ frames[2].st.i > 0

-----------------------------------------------------------------------------
(* The active output handler *)

\* C24: the handler installed by rcutils_logging_set_output_handler is left
\* in place by every operation other than the next
\* rcutils_logging_set_output_handler, here the one that follows the
\* installation of a non-null handler, whether the system was initialized at the installation or
\* not.
C24_InstalledHandlerStays ==
  [][(/\ last.op = "set_output_handler"
      /\ g_rcutils_logging_output_handler # NULL
      /\ last'.op # "set_output_handler") =>
       g_rcutils_logging_output_handler' = g_rcutils_logging_output_handler]_vars

\* what the code does of C24: on the initialized system only
\* rcutils_logging_set_output_handler changes the handler, and a passing log
\* call is dispatched to it
HandlerStaysOnceInitialized ==
  [][(g_rcutils_logging_initialized /\ last'.op # "set_output_handler") =>
       /\ g_rcutils_logging_output_handler' = g_rcutils_logging_output_handler
       /\ (last'.op = "log" /\ dispatched' # <<>>) =>
            dispatched'[1].handler = g_rcutils_logging_output_handler]_vars

-----------------------------------------------------------------------------
(* The frame of a log call *)

\* C25: a log call leaves the initialized flag, the severity threshold, the
\* active handler and the format template as they were, whether it is gated
\* out, emitted by the console handler or aborted by a failure.
C25_LogChangesNoGlobal ==
  [][last'.op = "log" =>
       UNCHANGED <<g_rcutils_logging_initialized,
                   g_rcutils_logging_output_format_string,
                   g_rcutils_logging_output_handler,
                   g_rcutils_logging_severity_threshold>>]_vars

\* a log call was emitted by the console handler and the globals are those
\* of before the call
C25_Witness ==
  /\ LoggedToConsole
  /\ stdout \o stderr = <<Expansion(Template, last.call) \o <<"\n">> >>
  /\ Before = last.pre
  /\ g_rcutils_logging_initialized
\* the text holds a start delimiter
HasDelimiter(text) == IndexOf(text, "{") # 0

\* the call's message or logger name holds a start delimiter
BracesInValues(call) ==
  \/ HasDelimiter(TokenValues(call).message)
  \/ HasDelimiter(TokenValues(call).name)

\* C26: expansion is one pass over the template: the text substituted for a
\* token is copied to the line as it is and never scanned again, so a message
\* or a name that holds {severity} or an unmatched { appears literally in the
\* line and the rest of the template expands as it would without them.
C26_SubstitutedTextNotRescanned ==
  (/\ HandlerCalled
   /\ Unfailed
   /\ BracesInValues(last.call)
   /\ stdout \o stderr # <<>>)
  => \E t \in {Template} :
       LET line == (stdout \o stderr)[1]
           v == TokenValues(last.call)
       IN /\ line = Expansion(t, last.call) \o <<"\n">>
          /\ t = FmtSeverityMessage =>
               line = v.severity \o <<":">> \o v.message \o <<"\n">>
          /\ t = g_rcutils_logging_default_output_format =>
               line = <<"[">> \o v.severity \o <<"]", " ", "[">> \o v.name \o
                      <<"]", ":", " ">> \o v.message \o <<" ", "(">> \o
                      v.function_name \o <<"(", ")", " ", "a", "t", " ">> \o
                      v.file_name \o <<":">> \o v.line_number \o
                      <<")", "\n">>

C26_Witness ==
  /\ HandlerCalled
  /\ Unfailed
  /\ last.call.severity = 20
  /\ Template = FmtSeverityMessage
  /\ stdout = << <<"I", "N", "F", "O", ":", "{", "s", "e", "v", "e", "r", "i",
                  "t", "y", "}", "{", "\n">> >>

\* the blocks the caller of the first n allocator calls of the trace owns:
\* those a successful allocate or reallocate returned, less those passed to
\* deallocate or to a successful reallocate
RECURSIVE OwnedAfter(_, _)
OwnedAfter(trace, n) ==
  IF n = 0 THEN {}
  ELSE LET ev == trace[n]
           before == OwnedAfter(trace, n - 1)
       IN CASE ev.op = "allocate" ->
                 IF ev.ret = NULL THEN before ELSE before \cup {ev.ret}
            [] ev.op = "reallocate" ->
                 IF ev.ret = NULL THEN before
                 ELSE (before \ {ev.ret, ev.ptr}) \cup {ev.ret}
            [] OTHER -> before \ {ev.ptr}

\* C27: on every path on which the console handler returns, each block it
\* got from the allocator and still owns is deallocated exactly once before
\* the return, and what it passes to deallocate or reallocate is always a
\* block it owns at that moment, never one of its two stack buffers.
C27_OwnedBlocksReleasedOnce ==
  (HandlerCalled /\ ~crashed) =>
    /\ \A n \in 1..Len(alloc_trace) :
         alloc_trace[n].op \in {"deallocate", "reallocate"} =>
           alloc_trace[n].ptr \in OwnedAfter(alloc_trace, n - 1)
    /\ OwnedAfter(alloc_trace, Len(alloc_trace)) = {}

\* the message buffer and the output buffer are on the heap and the growth
\* of the output buffer fails
C27_Witness ==
  /\ HandlerCalled
  /\ ~crashed
  /\ Len(TraceCalls("allocate")) = 2
  /\ Len(TraceCalls("reallocate")) = 1
  /\ TraceCalls("reallocate")[1].ret = NULL
  /\ Len(TraceCalls("deallocate")) = 2

\* the most doublings of the output buffer's capacity a call of the model
\* can need
MaxDoublings == 8

\* the thread is in the expansion loop or has just left it for the write
InLoop(t) == frames[t].st.pc \in {"loop", "token", "print"}

\* the output buffer's string and its terminator lie within the capacity,
\* which is the static buffer's size doubled some number of times
OutputBufferFits(st) ==
  /\ Len(st.output_buffer) + 1 <= st.output_buffer_size
  /\ \E k \in 0..MaxDoublings :
       st.output_buffer_size = StaticOutputBufferSize * (2 ^ k)
  /\ st.dynamic <=> st.output_buffer_size > StaticOutputBufferSize

\* C28: at every point of the expansion loop the output buffer's string with
\* its terminator lies within the capacity, so did every append, the
\* capacity is 1024 doubled k >= 0 times, and a step of the loop, a growth
\* by allocation or reallocation included, keeps the characters emitted so
\* far at the beginning of the buffer.
C28_OutputBufferInvariant ==
  /\ [](\A t \in Threads : InLoop(t) => OutputBufferFits(frames[t].st))
  /\ [][\A t \in Threads :
          (InLoop(t) /\ InLoop(t)') =>
            /\ IsPrefix(frames[t].st.output_buffer,
                        frames[t].st.output_buffer')
            /\ frames[t].st.output_buffer_size' >=
                 frames[t].st.output_buffer_size]_vars

\* the output buffer was allocated and then reallocated, and holds more than
\* the first allocation could
C28_Witness ==
  /\ InLoop(1)
  /\ frames[1].st.output_buffer_size = 4 * StaticOutputBufferSize
  /\ Len(frames[1].st.output_buffer) > 2 * StaticOutputBufferSize
  /\ Len(frames[1].st.trace) = 2
  /\ frames[1].st.trace[2].op = "reallocate"

\* thread t is in the body of the expansion loop
Looping(t) == frames[t].st.pc \in {"loop", "token"}

\* the scan index of thread t is within the template and, at the token
\* branch, at a start delimiter
IndexInTemplate(t) ==
  /\ frames[t].st.i <= frames[t].c.size
  /\ frames[t].st.pc = "token" =>
       /\ frames[t].st.i < frames[t].c.size
       /\ frames[t].c.str[frames[t].st.i + 1] = "{"

\* a step of thread t in the loop that begins the next iteration has moved
\* the scan index forward, and the step to the token branch has not moved
\* it back
IndexAdvances(t) ==
  (Looping(t) /\ Looping(t)' /\ frames[t].st' # frames[t].st) =>
    IF frames[t].st.pc' = "loop"
    THEN frames[t].st.i' >= frames[t].st.i + 1
    ELSE frames[t].st.i' >= frames[t].st.i

\* the safety half of C29: the scan index stays within the template, stands
\* at a start delimiter at the token branch and grows with every iteration
LoopAdvances ==
  /\ [](\A t \in Threads : Looping(t) => IndexInTemplate(t))
  /\ [][\A t \in Threads : IndexAdvances(t)]_vars

\* a thread in the handler that has made no invalid read has a next step:
\* the handler takes no lock and waits for nothing
RunsUnlessInvalidRead ==
  \A t \in Threads :
    (threads[t].pc = "running" /\ ~crashed) => HasNextStep(t)

\* C29: the expansion loop terminates for every template and every record:
\* each iteration leaves the loop or moves the scan index forward by at
\* least one, the index never exceeds the template's length, at the token
\* branch the character at the index is the start delimiter, and every call
\* of the console handler returns: a call that has not returned always has
\* a next step.
C29_HandlerAlwaysReturns ==
  /\ LoopAdvances
  /\ [](\A t \in Threads : threads[t].pc = "running" => HasNextStep(t))

-----------------------------------------------------------------------------
(* The diagnostic of rcutils_reallocf *)

\* C30: when rcutils_reallocf rejects an allocator, what it writes to
\* standard error is the whole message, from "[c_utilties|allocator.c:" to
\* "memory leaked" and the newline: as many characters as the message has.
C30_ReallocfDiagnosticComplete ==
  (last.op = "reallocf" /\ Unusable(last.call.allocator)) =>
    /\ stderr = <<ReallocfDiagnostic>>
    /\ Len(stderr[1]) = Len(ReallocfDiagnostic)

====
